---- MODULE Spec2Model ----
(***************************************************************************)
(* Training pipelines of the stock platform: the per-asset feature         *)
(* assemblers, the multi-asset dataset builders with their chronological   *)
(* split, the trainers and the artifact writers of                         *)
(*   ml/scripts/train_global_model.py      (script "global")               *)
(*   ml/scripts/train_stock_model.py       (script "stock")                *)
(*   ml/scripts/train_classifier_model.py  (script "classifier")           *)
(*   ml/training/train_lgbm.py             (script "lgbm")                 *)
(* the inference-side feature preparation and ml/scripts/test_inference.py, *)
(* the backend's ModelManager, inference service and prediction endpoint   *)
(* (specification SpecBackend; SpecConcurrent interleaves two request      *)
(* handlers on the shared manager), the market module (SpecMarket), and one *)
(* run of the retrain_model DAG                                            *)
(* (specification SpecDag) and of the seed_market_data DAG (SpecSeed).     *)
(* SpecSplit applies the chronological split to a dataset of two assets.   *)
(*                                                                         *)
(* Abstractions.  A bar is identified by its 0-based position t in the     *)
(* asset's date-ordered history; its date is start + t in integer time     *)
(* units and its close is a linear function of t.  Bars hold no missing    *)
(* value.  A column of a frame is modelled by the interval of positions    *)
(* where pandas leaves it non-NaN; dropna keeps the positions where every  *)
(* column is non-NaN.  Returns and quantiles are exact rationals [n, d],   *)
(* d > 0, so float rounding at a threshold or cutoff is out of scope.      *)
(***************************************************************************)
EXTENDS Integers, Sequences, FiniteSets, TLC

VARIABLES
    script,      \* which training entry point runs
    db,          \* the market data the run reads: table name -> table
    pc,          \* position of main()
    tables,      \* the asset universe iterated by the builder
    i,           \* 1-based position of the per-asset loop in tables
    le,          \* classes_ of the fitted LabelEncoder (<<>> before fit)
    market_df,   \* classifier: the market frame, NoFrame when None
    rows,        \* FeatureRows returned by the assembler so far
    frames,      \* number of frames appended to all_X / all_features
    skipped,     \* assets the loop skipped (exception or too few bars)
    split_date,  \* the split cutoff, NaT while not computed / not a time
    train,       \* train partition
    test,        \* test partition
    X_columns,   \* column order of the feature matrix handed to the trainer
    files,       \* artifact directory: file name -> content
    model,       \* the fitted estimator, NoModel before fit
    class_weights,   \* classifier: class -> weight, <<>> before they are computed
    sample_weights,  \* classifier: training row -> weight
    inference,   \* what test_inference.main handed to the model, NoInference before
    \* backend: market tables, artifact directory of the API and ModelManager
    market_stocks,   \* symbols of market.stocks
    daily_prices,    \* symbol -> the OHLC table of its bars
    disk,            \* files present in models/stock_prediction
    instances,       \* objects allocated by ModelManager.__new__
    manager,         \* fields of the ModelManager instance
    reads,           \* artifact file -> number of times it was read from disk
    returned,        \* outcome of the last ModelManager call
    response,        \* outcome of the last GET /inference/predict/{symbol}
    active_stocks,   \* symbols of market.stocks whose is_active is true
    market_reply,    \* outcome of the last call of the market module
    handlers,        \* request handler -> its position in ModelManager.model
    \* retrain_model DAG run
    dag_input,       \* what the tasks of the run find
    task_state,      \* task id -> state of its task instance
    try_number,      \* task id -> attempts started so far
    \* seed_market_data DAG run
    seed_db,         \* market.stocks and the row count per symbol of market.daily_prices
    seed_state,      \* task id -> state of its task instance
    seed_try         \* task id -> attempts started so far

fitVars == <<model, class_weights, sample_weights>>
trainVars == <<script, db, pc, tables, i, le, market_df, rows, frames, skipped,
               split_date, train, test, X_columns, files, fitVars, inference>>
marketVars == <<active_stocks, market_reply>>
backendVars == <<market_stocks, daily_prices, disk, instances, manager, reads,
                 returned, response, marketVars, handlers>>
retrainVars == <<dag_input, task_state, try_number>>
seedVars == <<seed_db, seed_state, seed_try>>
dagVars == <<retrainVars, seedVars>>
otherVars == <<backendVars, dagVars>>
vars == <<trainVars, backendVars, dagVars>>

----------------------------------------------------------------------------
(* Bounds of the explored inputs *)

NumStocks == 1      \* stock tables in the database, besides spy and sectors
MaxBars == 115      \* longest history of a table read by the dataset builders
LgbmBars == 165     \* longest history read by train_lgbm
StartShift == 7     \* a table's first date is 0 or StartShift
PivotBar == 100     \* position where every price line passes PivotPrice
PivotPrice == 4000
DaySpread == 5      \* the split is applied to assets of 100-DaySpread..100 rows
MaxBestRound == 120 \* a late boosting round at which the metric last improves

StockNames == <<"aapl", "msft", "nvda", "tsla">>
Stocks == {StockNames[k] : k \in 1..NumStocks}
Slopes == {-1, 1}
BarCounts == {0, 99, 100, MaxBars}
Starts == {0, StartShift}

NaT == [n |-> 0, d |-> 0]          \* pandas NaT / NaN: not a value
NoFrame == [ok |-> FALSE, n |-> 0, start |-> 0, slope |-> 0]

\* A table of bars: ok = FALSE when loading or featurising it raises
\* (unreadable table, malformed rows), else n well-formed bars.
Malformed == [ok |-> FALSE, n |-> MaxBars, start |-> 0, slope |-> 1]
TableChoices ==
    {NoFrame, Malformed} \cup {[ok |-> TRUE, n |-> 0, start |-> 0, slope |-> 1]}
    \cup {[ok |-> TRUE, n |-> n, start |-> s, slope |-> d] :
             n \in BarCounts \ {0}, s \in Starts, d \in Slopes}

LgbmChoices ==
    {NoFrame} \cup {[ok |-> TRUE, n |-> n, start |-> 0, slope |-> d] :
                       n \in {100, LgbmBars}, d \in Slopes}

----------------------------------------------------------------------------
(* Rational arithmetic on [n, d] with d > 0 *)

Rat(n, d) == [n |-> n, d |-> d]
IsNaT(x) == x.d = 0
RatEq(x, y) == x.n * y.d = y.n * x.d
RatLt(x, y) == x.n * y.d < y.n * x.d
RatLe(x, y) == x.n * y.d <= y.n * x.d

\* Series comparison against a scalar: False wherever either side is NaT.
DateLe(date, cutoff) == ~IsNaT(cutoff) /\ RatLe(Rat(date, 1), cutoff)
DateGt(date, cutoff) == ~IsNaT(cutoff) /\ RatLt(cutoff, Rat(date, 1))

----------------------------------------------------------------------------
(* Bars *)

Close(tab, t) == PivotPrice + tab.slope * (t - PivotBar)
Date(tab, t) == tab.start + t
Positions(tab) == 0..(tab.n - 1)

----------------------------------------------------------------------------
(* pandas column operations.  A column is the interval [lo, hi] of         *)
(* positions where it is not NaN (empty when lo > hi).                     *)

Col(lo, hi) == [lo |-> lo, hi |-> hi]
Max(S) == CHOOSE x \in S : \A y \in S : y <= x
Min(S) == CHOOSE x \in S : \A y \in S : x <= y

Raw(n) == Col(0, n - 1)                      \* a stored column: no NaN
Shift(c, k) == Col(c.lo + k, c.hi + k)       \* Series.shift(k), before clipping
Clip(c, n) == Col(Max({c.lo, 0}), Min({c.hi, n - 1}))
ShiftIn(c, k, n) == Clip(Shift(c, k), n)     \* Series.shift(k) on n rows
Both(a, b) == Col(Max({a.lo, b.lo}), Min({a.hi, b.hi}))   \* a op b
PctChange(c, lag, n) == Both(c, ShiftIn(c, lag, n))  \* c / c.shift(lag) - 1
Diff(c, n) == Both(c, ShiftIn(c, 1, n))              \* c - c.shift(1)
Rolling_mut(c, window) == Col(c.lo + window, c.hi)
Rolling(c, window) == Col(c.lo + window - 1, c.hi)   \* min_periods = window
Ewm(c) == c                                  \* adjust=False: defined from c.lo on
Where0(c, n) == Raw(n)                       \* Series.where(cond, 0): NaN -> 0
FillNa(c, n) == Raw(n)                       \* Series.fillna(0)

\* DataFrame.dropna(): positions where every column is present.
DropNa(cols) == LET lo == Max({c.lo : c \in cols})
                    hi == Min({c.hi : c \in cols})
                IN  lo..hi

\* close.shift(-horizon) / close - 1 at position t
ForwardReturn(tab, t, horizon) ==
    Rat(Close(tab, t + horizon) - Close(tab, t), Close(tab, t))

----------------------------------------------------------------------------
(* train_global_model.py *)

GLOBAL_PREDICTION_HORIZON == 60
EXCLUDE_TABLES == {"abcde", "modelfeatures", "sectors", "stock_metadata"}

\* Columns of the frame create_features builds before dropna.
GlobalColumns(n) ==
    LET close == Raw(n)
        ret_1 == PctChange(close, 1, n)
    IN  { Raw(n),                                      \* date, ohlcv, hour, dayofweek, ticker_id
          ShiftIn(close, -GLOBAL_PREDICTION_HORIZON, n),  \* target
          ret_1, PctChange(close, 5, n), PctChange(close, 10, n),
          PctChange(close, 20, n),
          Rolling(close, 10), Rolling(close, 50),      \* sma_w, dist_sma_w
          Rolling(ret_1, 20),                          \* volatility_20
          Rolling(Where0(Diff(close, n), n), 14),      \* rsi
          Rolling(Raw(n), 20) }                        \* vol_ma_20, vol_ratio

GlobalFeatureCols ==
    <<"ticker_id", "hour", "dayofweek", "ret_1", "ret_5", "ret_10", "ret_20",
      "dist_sma_10", "dist_sma_50", "volatility_20", "rsi", "vol_ratio">>

Row(ticker, tid, tab, t, target) ==
    [ticker |-> ticker, ticker_id |-> tid, t |-> t, date |-> Date(tab, t),
     target |-> target]

global_create_features(tab, ticker, tid) ==
    { Row(ticker, tid, tab, t, ForwardReturn(tab, t, GLOBAL_PREDICTION_HORIZON)) :
        t \in DropNa(GlobalColumns(tab.n)) }

----------------------------------------------------------------------------
(* ml/features/technical_indicators.py and train_stock_model.py *)

STOCK_PREDICTION_HORIZON == 26
MIN_BARS == 100
NoTickerId == "none"        \* the stock model has no ticker_id feature

calculate_sma(close, windows) == {Rolling(close, w) : w \in windows}
calculate_rsi(close, n, period) == {Rolling(Where0(Diff(close, n), n), period)}
calculate_macd(close) == {Ewm(close), Ewm(Ewm(close))}
calculate_bollinger_bands(close, window) == {Rolling(close, window)}
calculate_returns(close, lags, n) == {PctChange(close, lag, n) : lag \in lags}
calculate_volatility(close, window, n) == {Rolling(PctChange(close, 1, n), window)}
calculate_volume_features(volume, window) == {Rolling(volume, window)}

create_all_features(n) ==
    {Raw(n)}                                   \* stored columns, dayofweek, month
    \cup calculate_sma(Raw(n), {10, 20, 50})
    \cup calculate_rsi(Raw(n), n, 14)
    \cup calculate_macd(Raw(n))
    \cup calculate_bollinger_bands(Raw(n), 20)
    \cup calculate_returns(Raw(n), {1, 5, 10, 20}, n)
    \cup calculate_volatility(Raw(n), 20, n)
    \cup calculate_volume_features(Raw(n), 20)

ml_get_feature_columns_mut ==
    <<"ret_1", "ret_5", "ret_10", "ret_20",
      "dist_sma_10", "dist_sma_20", "dist_sma_50",
      "rsi", "macd", "macd_diff", "macd_signal",
      "bb_width", "bb_position", "volatility_20", "vol_ratio",
      "dayofweek", "month">>

ml_get_feature_columns ==
    <<"ret_1", "ret_5", "ret_10", "ret_20",
      "dist_sma_10", "dist_sma_20", "dist_sma_50",
      "rsi", "macd", "macd_signal", "macd_diff",
      "bb_width", "bb_position", "volatility_20", "vol_ratio",
      "dayofweek", "month">>

\* body of the per-symbol loop of prepare_dataset, after the length check
stock_features(tab, symbol) ==
    { Row(symbol, NoTickerId, tab, t,
          ForwardReturn(tab, t, STOCK_PREDICTION_HORIZON)) :
        t \in DropNa(create_all_features(tab.n)
                     \cup {ShiftIn(Raw(tab.n), -STOCK_PREDICTION_HORIZON, tab.n)}) }

----------------------------------------------------------------------------
(* train_classifier_model.py *)

CLASSIFIER_PREDICTION_HORIZON == 12
THRESHOLD_UP == Rat(3, 1000)
THRESHOLD_DOWN == Rat(-3, 1000)
MARKET_TICKER == "spy"
DOWN == 0
NEUTRAL == 1
UP == 2

\* a market column, left-joined on date onto the asset's positions
Join(c, m, tab) == ShiftIn(c, m.start - tab.start, tab.n)

MarketColumns(m, tab) ==
    IF m.ok
    THEN { Join(PctChange(Raw(m.n), 1, m.n), m, tab),            \* market_ret_1
           Join(PctChange(Raw(m.n), 12, m.n), m, tab),           \* market_ret_12
           Join(Both(Raw(m.n), ShiftIn(Raw(m.n), 12, m.n)), m, tab),  \* market_momentum
           FillNa(Join(PctChange(Raw(m.n), 12, m.n), m, tab), tab.n) } \* rel_strength
    ELSE { Raw(tab.n) }

ClassifierColumns(tab, m) ==
    LET n == tab.n
        close == Raw(n)
        ret_1 == PctChange(close, 1, n)
    IN  { Raw(n),                          \* stored columns, target, time flags
          ret_1, PctChange(close, 3, n), PctChange(close, 6, n),
          PctChange(close, 12, n),
          Both(close, ShiftIn(close, 12, n)),          \* momentum_12
          Both(close, ShiftIn(close, 36, n)),          \* momentum_36
          Rolling(close, 12), Rolling(close, 36), Rolling(close, 72),
          Rolling(ret_1, 12), Rolling(ret_1, 36),      \* volatility
          Rolling(Raw(n), 12),                         \* hl_range_ma, vol_ma_12
          Rolling(Where0(Diff(close, n), n), 14) }     \* rsi
        \cup MarketColumns(m, tab)

ClassifierTarget_mut(tab, t) ==
    LET observable == t + CLASSIFIER_PREDICTION_HORIZON \in Positions(tab)
        r == ForwardReturn(tab, t, CLASSIFIER_PREDICTION_HORIZON)
    IN  IF observable /\ RatLt(r, THRESHOLD_DOWN) THEN DOWN
        ELSE IF observable /\ RatLe(THRESHOLD_UP, r) THEN UP
        ELSE NEUTRAL

\* future_return and the three-way target of position t
ClassifierTarget(tab, t) ==
    LET observable == t + CLASSIFIER_PREDICTION_HORIZON \in Positions(tab)
        r == ForwardReturn(tab, t, CLASSIFIER_PREDICTION_HORIZON)
    IN  IF observable /\ RatLt(r, THRESHOLD_DOWN) THEN DOWN
        ELSE IF observable /\ RatLt(THRESHOLD_UP, r) THEN UP
        ELSE NEUTRAL

ClassifierFeatureCols ==
    <<"ticker_id", "hour", "dayofweek", "ret_1", "ret_3", "ret_6", "ret_12",
      "momentum_12", "momentum_36", "dist_sma_12", "dist_sma_36", "dist_sma_72",
      "volatility_12", "volatility_36", "hl_range", "hl_range_ma",
      "rsi", "rsi_oversold", "rsi_overbought", "vol_ratio", "vol_spike",
      "is_open_hour", "is_close_hour",
      "market_ret_1", "market_ret_12", "market_momentum", "rel_strength">>

classifier_create_features(tab, ticker, tid, m) ==
    { Row(ticker, tid, tab, t, ClassifierTarget(tab, t)) :
        t \in DropNa(ClassifierColumns(tab, m)) }

\* tables[::10]
SampleTables(ts) == {ts[k] : k \in {j \in 1..Len(ts) : (j - 1) % 10 = 0}}

\* the date column of every bar of the given tables
RawDates(ts) ==
    UNION { {[ticker |-> tk, t |-> t, date |-> Date(db[tk], t)] :
                t \in Positions(db[tk])} : tk \in ts }

----------------------------------------------------------------------------
(* ml/training/train_lgbm.py *)

STOCK_TICKER == "aapl"
LGBM_PREDICTION_HORIZON == 60
TrainRatioNum == 8
TrainRatioDen == 10

create_technical_features(n) ==
    LET close == Raw(n)
        return_1 == PctChange(close, 1, n)
    IN  { Raw(n), return_1, PctChange(close, 5, n), PctChange(close, 10, n),
          PctChange(close, 20, n) }
        \cup {Rolling(close, w) : w \in {5, 10, 20, 50, 100}}     \* sma_w
        \cup {Ewm(close)}                                         \* ema_w, macd
        \cup {Rolling(return_1, w) : w \in {5, 10, 20}}           \* volatility_w
        \cup {Rolling(Raw(n), w) : w \in {10, 20}}   \* hl_range_ma_10, volume_ma_w
        \cup {Rolling(Where0(Diff(close, n), n), 14)}             \* rsi_14
        \cup {Both(close, ShiftIn(close, k, n)) : k \in {5, 10, 20}}   \* roc_k
        \cup {ShiftIn(close, k, n) : k \in {1, 2, 3, 5, 10}}      \* close_lag_k
        \cup {ShiftIn(return_1, k, n) : k \in {1, 2, 3, 5, 10}}   \* return_lag_k

\* rows of df after target creation and dropna
lgbm_rows(tab) ==
    { Row(STOCK_TICKER, NoTickerId, tab, t,
          Rat(Close(tab, t + LGBM_PREDICTION_HORIZON), 1)) :
        t \in DropNa(create_technical_features(tab.n)
                     \cup {ShiftIn(Raw(tab.n), -LGBM_PREDICTION_HORIZON, tab.n)}) }

\* int(len(df) * TRAIN_RATIO)
SplitIdx(len) == (len * TrainRatioNum) \div TrainRatioDen
\* df.iloc[:k]: the k rows of lowest position
ILocHead(S, k) == {r \in S : Cardinality({q \in S : q.t < r.t}) < k}

----------------------------------------------------------------------------
(* backend/app/modules/inference/features.py, model_loader.py and          *)
(* ml/scripts/test_inference.py                                            *)

calculate_technical_indicators(n) ==
    LET close == Raw(n)
    IN  {Raw(n)}
        \cup {Rolling(close, w) : w \in {10, 20, 50}}         \* sma_w, dist_sma_w
        \cup {Rolling(Where0(Diff(close, n), n), 14)}         \* rsi
        \cup {Ewm(close), Ewm(Ewm(close))}                    \* macd, macd_signal
        \cup {Rolling(close, 20)}                             \* bb_*
        \cup {PctChange(close, lag, n) : lag \in {1, 5, 10, 20}}
        \cup {Rolling(PctChange(close, 1, n), 20)}            \* volatility_20
        \cup {Rolling(Raw(n), 20)}                            \* vol_ma_20, vol_ratio

backend_get_feature_columns ==
    <<"ret_1", "ret_5", "ret_10", "ret_20",
      "dist_sma_10", "dist_sma_20", "dist_sma_50",
      "rsi", "macd", "macd_signal", "macd_diff",
      "bb_width", "bb_position", "volatility_20", "vol_ratio",
      "dayofweek", "month">>

\* df[cols]: the frame restricted to cols, in the order of cols
SelectColumns(frame_columns, cols) == cols

\* the row returned; raised = TRUE for the ValueError
prepare_features_for_prediction(tab) ==
    LET kept == DropNa(calculate_technical_indicators(tab.n))
    IN  IF kept = {} THEN [raised |-> TRUE, t |-> 0, columns |-> <<>>]
        ELSE [raised |-> FALSE, t |-> Max(kept),
              columns |-> SelectColumns(ml_get_feature_columns,
                                        backend_get_feature_columns)]

InferenceFeatureCols ==
    <<"ticker_id", "hour", "dayofweek", "ret_1", "ret_3", "ret_6", "ret_12",
      "momentum_12", "momentum_36", "dist_sma_12", "dist_sma_36", "dist_sma_72",
      "volatility_12", "volatility_36", "hl_range", "hl_range_ma",
      "rsi", "rsi_oversold", "rsi_overbought", "vol_ratio", "vol_spike",
      "is_open_hour", "is_close_hour",
      "market_ret_1", "market_ret_12", "market_momentum", "rel_strength">>

\* load_recent_data(engine, ticker, limit=200): the newest RECENT_LIMIT bars,
\* oldest first.  Only the dates and the number of the kept bars matter to
\* the features' validity.
RECENT_LIMIT == 200
load_recent_data(tab) ==
    IF tab.n <= RECENT_LIMIT THEN tab
    ELSE [tab EXCEPT !.n = RECENT_LIMIT, !.start = tab.start + tab.n - RECENT_LIMIT]

InferenceMarketColumns(m, tab) ==
    IF m.ok
    THEN { Join(PctChange(Raw(m.n), 1, m.n), m, tab),            \* market_ret_1
           Join(PctChange(Raw(m.n), 12, m.n), m, tab),           \* market_ret_12
           Join(Both(Raw(m.n), ShiftIn(Raw(m.n), 12, m.n)), m, tab),  \* market_momentum
           FillNa(Join(PctChange(Raw(m.n), 12, m.n), m, tab), tab.n) } \* rel_strength
    ELSE { Raw(tab.n) }

InferenceColumns(tab, m) ==
    LET n == tab.n
        close == Raw(n)
        ret_1 == PctChange(close, 1, n)
    IN  { Raw(n),                          \* stored columns, flags, ticker_id
          ret_1, PctChange(close, 3, n), PctChange(close, 6, n),
          PctChange(close, 12, n),
          Both(close, ShiftIn(close, 12, n)),          \* momentum_12
          Both(close, ShiftIn(close, 36, n)),          \* momentum_36
          Rolling(close, 12), Rolling(close, 36), Rolling(close, 72),
          Rolling(ret_1, 12), Rolling(ret_1, 36),      \* volatility
          Rolling(Raw(n), 12),                         \* hl_range_ma, vol_ma_12
          Rolling(Where0(Diff(close, n), n), 14) }     \* rsi
        \cup InferenceMarketColumns(m, tab)

\* df.iloc[[-1]][feature_cols] of a non-empty frame: the last bar, whatever
\* its columns hold.  last_full is the newest bar without a missing feature,
\* -1 when there is none.
create_features_inference(tab, ticker_id, m) ==
    LET kept == DropNa(InferenceColumns(tab, m))
    IN  [t |-> tab.n - 1, ticker_id |-> ticker_id,
         last_full |-> IF kept = {} THEN -1 ELSE Max(kept),
         columns |-> InferenceFeatureCols]

\* le.transform([ticker])[0], and 0 when the ticker is not a class
InferenceTickerId(classes, ticker) ==
    IF \E k \in 1..Len(classes) : classes[k] = ticker
    THEN (CHOOSE k \in 1..Len(classes) : classes[k] = ticker) - 1
    ELSE 0

\* the files ModelManager.load_model reads
LoaderFiles ==
    {"model.json", "feature_names.json", "metadata.json", "ticker_encoder.joblib"}

----------------------------------------------------------------------------
(* Series.quantile(0.8), linear interpolation between order statistics *)

QuantileNum == 4
QuantileDen == 5

CountLe(S, d) == Cardinality({r \in S : r.date <= d})
CountLt(S, d) == Cardinality({r \in S : r.date < d})
\* k-th smallest date (0-based) of the dates of S, with multiplicity
Kth(S, k) == CHOOSE d \in {r.date : r \in S} :
                 CountLt(S, d) <= k /\ k < CountLe(S, d)

Quantile_mut(S) ==
    IF S = {} THEN NaT
    ELSE LET h   == QuantileNum * (Cardinality(S) - 1)
             lo  == h \div QuantileDen
             g   == h % QuantileDen
             vhi == IF g = 0 THEN Kth(S, lo) ELSE Kth(S, lo + 1)
         IN  Rat(vhi, 1)

Quantile(S) ==
    IF S = {} THEN NaT
    ELSE LET h   == QuantileNum * (Cardinality(S) - 1)
             lo  == h \div QuantileDen
             g   == h % QuantileDen
             vlo == Kth(S, lo)
             vhi == IF g = 0 THEN vlo ELSE Kth(S, lo + 1)
         IN  Rat(QuantileDen * vlo + g * (vhi - vlo), QuantileDen)

----------------------------------------------------------------------------
(* Shared pieces of the main() functions *)

DbTables == Stocks \cup {"sectors", "spy"}

\* information_schema query, ORDER BY table_name
get_all_tables == SubSeq(StockNames, 1, NumStocks) \o <<"sectors", "spy">>

NotExcluded(t) == t \notin EXCLUDE_TABLES
FilterTables(ts) == SelectSeq(ts, NotExcluded)

\* LabelEncoder.fit: the classes are the sorted distinct labels; the tables
\* arrive sorted and distinct.
Fit(ts) == ts
\* LabelEncoder.transform([ticker])[0]
Transform(classes, ticker) ==
    (CHOOSE k \in 1..Len(classes) : classes[k] = ticker) - 1

WriteFile(fs, name, content) ==
    [f \in DOMAIN fs \cup {name} |-> IF f = name THEN content ELSE fs[f]]

TrainMask(S, cutoff) == {r \in S : DateLe(r.date, cutoff)}
TestMask(S, cutoff) == {r \in S : DateGt(r.date, cutoff)}

\* model.fit(X_train, y_train, eval_set=[(X_test, y_test)]): the library
\* rejects an empty training matrix; with an empty evaluation set it may
\* raise or go on.
FitOutcomes(tr, te) ==
    IF tr = {} THEN {"aborted"}
    ELSE IF te = {} THEN {"aborted", "save"} ELSE {"save"}

----------------------------------------------------------------------------
(* The estimators and their fit *)

GlobalParams == [n_estimators |-> 1000, early_stopping_rounds |-> 50]
XGBOOST_PARAMS == [n_estimators |-> 500]
ClassifierParams == [n_estimators |-> 500, early_stopping_rounds |-> 30]

\* The evaluation metric of a fit is an input: best_round is the 0-based
\* boosting round at which it improves for the last time.
BestRounds(params) == {0, MaxBestRound, params.n_estimators - 1}

\* XGBModel.fit with eval_set: boosting runs n_estimators rounds, or, when
\* early_stopping_rounds is set, halts once that many rounds have passed
\* without improvement and records best_iteration; predict and the saved
\* model use the rounds up to best_iteration when it is recorded and every
\* round otherwise.
XgbFit(params, best_round) ==
    LET n == params.n_estimators
        stops == "early_stopping_rounds" \in DOMAIN params
        last == IF stops
                THEN Min({n - 1, best_round + params.early_stopping_rounds})
                ELSE n - 1
    IN  [fitted |-> TRUE, params |-> params, best_round |-> best_round,
         trees |-> last + 1,
         uses |-> IF stops THEN best_round + 1 ELSE last + 1]

\* class_weights of train_classifier_model.main
ClassWeight_mut(total, count) ==
    IF count > 0 THEN Rat(total, 2 * count) ELSE Rat(1, 1)
ClassWeight(total, count) ==
    IF count > 0 THEN Rat(total, 3 * count) ELSE Rat(1, 1)
ClassCount(y_train, cls) == Cardinality({r \in y_train : r.target = cls})
CalculateWeights(y_train) ==
    [cls \in {0, 1, 2} |->
        ClassWeight(Cardinality(y_train), ClassCount(y_train, cls))]
\* y_train.map(class_weights)
MapWeights(y_train, weights) == [r \in y_train |-> weights[r.target]]

Scripts == {"global", "stock", "classifier", "lgbm"}

NoModel == [fitted |-> FALSE]
NoInference == [ran |-> FALSE]
\* A field of the manager is 0 for None and k for the object made by the
\* k-th read of its file; booster tells whether the XGBRegressor held by
\* _model has its weights.
NoManager == [_model |-> 0, booster |-> FALSE, _feature_names |-> 0,
              _metadata |-> 0, _ticker_encoder |-> 0]
NoResult == [op |-> "none"]

\* the backend is not running
BackendIdle ==
    /\ market_stocks = {}
    /\ daily_prices = <<>>
    /\ disk = {}
    /\ instances = 0
    /\ manager = NoManager
    /\ reads = <<>>
    /\ returned = NoResult
    /\ response = NoResult
    /\ active_stocks = {}
    /\ market_reply = NoResult
    /\ handlers = <<>>

\* no training script runs
TrainIdle ==
    /\ script = "none"
    /\ db = <<>>
    /\ pc = "idle"
    /\ tables = <<>>
    /\ i = 0
    /\ le = <<>>
    /\ market_df = NoFrame
    /\ rows = {}
    /\ frames = 0
    /\ skipped = {}
    /\ split_date = NaT
    /\ train = {}
    /\ test = {}
    /\ X_columns = <<>>
    /\ files = <<>>
    /\ model = NoModel
    /\ class_weights = <<>>
    /\ sample_weights = <<>>
    /\ inference = NoInference

\* no run of seed_market_data is scheduled
SeedIdle ==
    /\ seed_db = <<>>
    /\ seed_state = <<>>
    /\ seed_try = <<>>

\* no DAG run is scheduled
DagIdle ==
    /\ dag_input = <<>>
    /\ task_state = <<>>
    /\ try_number = <<>>
    /\ SeedIdle

Init ==
    /\ script \in Scripts
    /\ db \in [DbTables -> TableChoices \cup LgbmChoices]
    /\ db["sectors"] = NoFrame
    /\ IF script = "lgbm"
       THEN /\ db[STOCK_TICKER] \in LgbmChoices
            /\ \A t \in DbTables \ {STOCK_TICKER} : db[t] = NoFrame
       ELSE \A t \in DbTables \ {"sectors"} : db[t] \in TableChoices
    /\ pc = "start"
    /\ tables = <<>>
    /\ i = 0
    /\ le = <<>>
    /\ market_df = NoFrame
    /\ rows = {}
    /\ frames = 0
    /\ skipped = {}
    /\ split_date = NaT
    /\ train = {}
    /\ test = {}
    /\ X_columns = <<>>
    /\ files = <<>>
    /\ model = NoModel
    /\ class_weights = <<>>
    /\ sample_weights = <<>>
    /\ inference = NoInference
    /\ BackendIdle
    /\ DagIdle

----------------------------------------------------------------------------
(* train_global_model.main *)

G_Start ==
    /\ script = "global" /\ pc = "start"
    /\ tables' = FilterTables(get_all_tables)
    /\ le' = Fit(tables')
    /\ files' = WriteFile(files, "ticker_encoder.joblib", le')
    /\ i' = 1
    /\ pc' = "loop"
    /\ UNCHANGED <<script, db, market_df, rows, frames, skipped, split_date,
                   train, test, X_columns>>
    /\ UNCHANGED <<fitVars, inference, otherVars>>

G_ProcessStock ==
    /\ script = "global" /\ pc = "loop" /\ i <= Len(tables)
    /\ LET ticker == tables[i]
           df_raw == db[ticker]
       IN  IF ~df_raw.ok
           THEN /\ skipped' = skipped \cup {ticker}      \* except: continue
                /\ UNCHANGED <<rows, frames>>
           ELSE /\ rows' = rows \cup
                      global_create_features(df_raw, ticker, Transform(le, ticker))
                /\ frames' = frames + 1
                /\ UNCHANGED skipped
    /\ i' = i + 1
    /\ UNCHANGED <<script, db, pc, tables, le, market_df, split_date, train,
                   test, X_columns, files>>
    /\ UNCHANGED <<fitVars, inference, otherVars>>

G_Concat ==
    /\ script = "global" /\ pc = "loop" /\ i > Len(tables)
    /\ IF frames = 0                 \* pd.concat([]) raises ValueError
       THEN pc' = "aborted" /\ UNCHANGED X_columns
       ELSE pc' = "split" /\ X_columns' = GlobalFeatureCols
    /\ UNCHANGED <<script, db, tables, i, le, market_df, rows, frames, skipped,
                   split_date, train, test, files>>
    /\ UNCHANGED <<fitVars, inference, otherVars>>

G_Split ==
    /\ script = "global" /\ pc = "split"
    /\ split_date' = Quantile(rows)
    /\ train' = TrainMask(rows, split_date')
    /\ test' = TestMask(rows, split_date')
    /\ pc' = "fit"
    /\ UNCHANGED <<script, db, tables, i, le, market_df, rows, frames, skipped,
                   X_columns, files>>
    /\ UNCHANGED <<fitVars, inference, otherVars>>

G_Fit ==
    /\ script = "global" /\ pc = "fit"
    /\ pc' \in FitOutcomes(train, test)
    /\ IF pc' = "save"
       THEN \E best_round \in BestRounds(GlobalParams) :
                model' = XgbFit(GlobalParams, best_round)
       ELSE UNCHANGED model
    /\ UNCHANGED <<script, db, tables, i, le, market_df, rows, frames, skipped,
                   split_date, train, test, X_columns, files>>
    /\ UNCHANGED <<class_weights, sample_weights, inference, otherVars>>

G_Save ==
    /\ script = "global" /\ pc = "save"
    /\ files' = WriteFile(files, "global_model.json", "XGBRegressor")
    /\ pc' = "done"
    /\ UNCHANGED <<script, db, tables, i, le, market_df, rows, frames, skipped,
                   split_date, train, test, X_columns>>
    /\ UNCHANGED <<fitVars, inference, otherVars>>

----------------------------------------------------------------------------
(* train_stock_model.main: load_stock_data, prepare_dataset,               *)
(* train_test_split_temporal, train_model, save_artifacts                  *)

HasRows(sym) == db[sym].n > 0
\* symbols of the joined query, ORDER BY dp.symbol
StockSymbols == SelectSeq(SubSeq(StockNames, 1, NumStocks) \o <<"spy">>, HasRows)

S_Load ==
    /\ script = "stock" /\ pc = "start"
    /\ tables' = StockSymbols
    /\ i' = 1
    /\ pc' = "loop"
    /\ UNCHANGED <<script, db, le, market_df, rows, frames, skipped, split_date,
                   train, test, X_columns, files>>
    /\ UNCHANGED <<fitVars, inference, otherVars>>

S_ProcessStock ==
    /\ script = "stock" /\ pc = "loop" /\ i <= Len(tables)
    /\ LET symbol == tables[i]
           stock_df == db[symbol]
       IN  IF stock_df.n < MIN_BARS
           THEN /\ skipped' = skipped \cup {symbol}      \* continue
                /\ i' = i + 1
                /\ UNCHANGED <<rows, frames, pc>>
           ELSE IF ~stock_df.ok
           THEN /\ pc' = "aborted"                       \* no handler: propagates
                /\ UNCHANGED <<rows, frames, skipped, i>>
           ELSE LET fs == stock_features(stock_df, symbol)
                IN  /\ rows' = rows \cup fs
                    /\ frames' = IF fs # {} THEN frames + 1 ELSE frames
                    /\ i' = i + 1
                    /\ UNCHANGED <<skipped, pc>>
    /\ UNCHANGED <<script, db, tables, le, market_df, split_date, train, test,
                   X_columns, files>>
    /\ UNCHANGED <<fitVars, inference, otherVars>>

S_Concat ==
    /\ script = "stock" /\ pc = "loop" /\ i > Len(tables)
    /\ IF frames = 0                 \* pd.concat([]) raises ValueError
       THEN pc' = "aborted" /\ UNCHANGED X_columns
       ELSE pc' = "split" /\ X_columns' = ml_get_feature_columns
    /\ UNCHANGED <<script, db, tables, i, le, market_df, rows, frames, skipped,
                   split_date, train, test, files>>
    /\ UNCHANGED <<fitVars, inference, otherVars>>

train_test_split_temporal ==
    /\ script = "stock" /\ pc = "split"
    /\ split_date' = Quantile(rows)
    /\ train' = TrainMask(rows, split_date')
    /\ test' = TestMask(rows, split_date')
    /\ pc' = "fit"
    /\ UNCHANGED <<script, db, tables, i, le, market_df, rows, frames, skipped,
                   X_columns, files>>
    /\ UNCHANGED <<fitVars, inference, otherVars>>

train_model ==
    /\ script = "stock" /\ pc = "fit"
    /\ pc' \in FitOutcomes(train, test)
    /\ IF pc' = "save"
       THEN \E best_round \in BestRounds(XGBOOST_PARAMS) :
                model' = XgbFit(XGBOOST_PARAMS, best_round)
       ELSE UNCHANGED model
    /\ UNCHANGED <<script, db, tables, i, le, market_df, rows, frames, skipped,
                   split_date, train, test, X_columns, files>>
    /\ UNCHANGED <<class_weights, sample_weights, inference, otherVars>>

save_artifacts ==
    /\ script = "stock" /\ pc = "save"
    /\ files' = WriteFile(WriteFile(WriteFile(WriteFile(files,
                    "model.json", "XGBRegressor"),
                    "feature_names.json", ml_get_feature_columns),
                    "feature_importance.csv", "importance"),
                    "metadata.json",
                    {"training_date", "model_type", "prediction_horizon",
                     "hyperparameters", "metrics", "feature_count"})
    /\ pc' = "done"
    /\ UNCHANGED <<script, db, tables, i, le, market_df, rows, frames, skipped,
                   split_date, train, test, X_columns>>
    /\ UNCHANGED <<fitVars, inference, otherVars>>

----------------------------------------------------------------------------
(* train_classifier_model.main *)

C_Start ==
    /\ script = "classifier" /\ pc = "start"
    /\ tables' = FilterTables(get_all_tables)
    /\ pc' = "sample"
    /\ UNCHANGED <<script, db, i, le, market_df, rows, frames, skipped,
                   split_date, train, test, X_columns, files>>
    /\ UNCHANGED <<fitVars, inference, otherVars>>

\* the lightweight pass over tables[::10] and the quantile of its dates
C_SplitDate ==
    /\ script = "classifier" /\ pc = "sample"
    /\ LET loaded == {t \in SampleTables(tables) : db[t].ok}   \* except: pass
       IN  IF loaded = {}            \* pd.concat([]) raises ValueError
           THEN pc' = "aborted" /\ UNCHANGED split_date
           ELSE pc' = "market" /\ split_date' = Quantile(RawDates(loaded))
    /\ UNCHANGED <<script, db, tables, i, le, market_df, rows, frames, skipped,
                   train, test, X_columns, files>>
    /\ UNCHANGED <<fitVars, inference, otherVars>>

C_LoadMarket ==
    /\ script = "classifier" /\ pc = "market"
    /\ market_df' = IF db[MARKET_TICKER].ok THEN db[MARKET_TICKER] ELSE NoFrame
    /\ le' = Fit(tables)
    /\ files' = WriteFile(files, "ticker_encoder.joblib", le')
    /\ i' = 1
    /\ pc' = "loop"
    /\ UNCHANGED <<script, db, tables, rows, frames, skipped, split_date, train,
                   test, X_columns>>
    /\ UNCHANGED <<fitVars, inference, otherVars>>

C_ProcessStock ==
    /\ script = "classifier" /\ pc = "loop" /\ i <= Len(tables)
    /\ LET ticker == tables[i]
           df_raw == db[ticker]
       IN  IF ~df_raw.ok
           THEN /\ skipped' = skipped \cup {ticker}      \* except: continue
                /\ UNCHANGED <<rows, frames, train, test>>
           ELSE LET X == classifier_create_features(df_raw, ticker,
                             Transform(le, ticker), market_df)
                IN  /\ rows' = rows \cup X
                    /\ train' = train \cup TrainMask(X, split_date)
                    /\ test' = test \cup TestMask(X, split_date)
                    /\ frames' = frames + 1
                    /\ UNCHANGED skipped
    /\ i' = i + 1
    /\ UNCHANGED <<script, db, pc, tables, le, market_df, split_date,
                   X_columns, files>>
    /\ UNCHANGED <<fitVars, inference, otherVars>>

C_Concat ==
    /\ script = "classifier" /\ pc = "loop" /\ i > Len(tables)
    /\ IF train = {} \/ test = {}    \* pd.concat([]) raises ValueError
       THEN pc' = "aborted" /\ UNCHANGED X_columns
       ELSE pc' = "fit" /\ X_columns' = ClassifierFeatureCols
    /\ UNCHANGED <<script, db, tables, i, le, market_df, rows, frames, skipped,
                   split_date, train, test, files>>
    /\ UNCHANGED <<fitVars, inference, otherVars>>

C_Fit ==
    /\ script = "classifier" /\ pc = "fit"
    /\ class_weights' = CalculateWeights(train)
    /\ sample_weights' = MapWeights(train, class_weights')
    /\ pc' \in FitOutcomes(train, test)
    /\ IF pc' = "save"
       THEN \E best_round \in BestRounds(ClassifierParams) :
                model' = XgbFit(ClassifierParams, best_round)
       ELSE UNCHANGED model
    /\ UNCHANGED <<script, db, tables, i, le, market_df, rows, frames, skipped,
                   split_date, train, test, X_columns, files>>
    /\ UNCHANGED <<inference, otherVars>>

C_Save ==
    /\ script = "classifier" /\ pc = "save"
    /\ files' = WriteFile(files, "classifier_model.json", "XGBClassifier")
    /\ pc' = "done"
    /\ UNCHANGED <<script, db, tables, i, le, market_df, rows, frames, skipped,
                   split_date, train, test, X_columns>>
    /\ UNCHANGED <<fitVars, inference, otherVars>>

----------------------------------------------------------------------------
(* train_lgbm.main *)

L_Load ==
    /\ script = "lgbm" /\ pc = "start"
    /\ tables' = <<STOCK_TICKER>>
    /\ pc' = IF db[STOCK_TICKER].ok THEN "features" ELSE "aborted"
    /\ UNCHANGED <<script, db, i, le, market_df, rows, frames, skipped,
                   split_date, train, test, X_columns, files>>
    /\ UNCHANGED <<fitVars, inference, otherVars>>

\* feature engineering, target, cleanup and the positional 80/20 split
L_Features ==
    /\ script = "lgbm" /\ pc = "features"
    /\ rows' = lgbm_rows(db[STOCK_TICKER])
    /\ frames' = 1
    /\ train' = ILocHead(rows', SplitIdx(Cardinality(rows')))
    /\ test' = rows' \ train'
    /\ pc' = "fit"
    /\ UNCHANGED <<script, db, tables, i, le, market_df, skipped, split_date,
                   X_columns, files>>
    /\ UNCHANGED <<fitVars, inference, otherVars>>

\* MinMaxScaler.fit_transform and RandomizedSearchCV.fit reject an empty frame
L_Fit ==
    /\ script = "lgbm" /\ pc = "fit"
    /\ pc' = IF train = {} THEN "aborted" ELSE "save"
    /\ UNCHANGED <<script, db, tables, i, le, market_df, rows, frames, skipped,
                   split_date, train, test, X_columns, files>>
    /\ UNCHANGED <<fitVars, inference, otherVars>>

L_Save ==
    /\ script = "lgbm" /\ pc = "save"
    /\ files' = [f \in DOMAIN files \cup
                     {"lightgbm_model.txt", "lightgbm_model.joblib",
                      "scaler.joblib", "feature_names.joblib", "config.joblib",
                      "predictions.csv"} |-> "lgbm"]
    /\ pc' = "done"
    /\ UNCHANGED <<script, db, tables, i, le, market_df, rows, frames, skipped,
                   split_date, train, test, X_columns>>
    /\ UNCHANGED <<fitVars, inference, otherVars>>

----------------------------------------------------------------------------
(* ml/scripts/test_inference.main, run against the classifier's artifact    *)
(* directory.  No training script writes config.joblib, so whether the      *)
(* directory holds one is an input; so is a table created after training.  *)

NewTicker == StockNames[NumStocks + 1]
InferenceTickers == DbTables \cup {NewTicker}
InferenceFiles == {"ticker_encoder.joblib", "config.joblib", "classifier_model.json"}

Inferred(ticker, outcome, row) ==
    [ran |-> TRUE, ticker |-> ticker, outcome |-> outcome, tid |-> row.ticker_id,
     t |-> row.t, last_full |-> row.last_full, columns |-> row.columns]
NoRow == [t |-> -1, ticker_id |-> -1, last_full |-> -1, columns |-> <<>>]

test_inference_main ==
    /\ script = "classifier" /\ pc \in {"done", "aborted"}
    /\ ~inference.ran
    /\ \E ticker \in InferenceTickers, config_present \in BOOLEAN,
          created \in TableChoices :
          LET present == DOMAIN files \cup
                             (IF config_present THEN {"config.joblib"} ELSE {})
              table == IF ticker = NewTicker THEN created ELSE db[ticker]
              df == load_recent_data(table)
              classes == files["ticker_encoder.joblib"]
              spy == load_recent_data(db[MARKET_TICKER])
              m == IF spy.ok THEN spy ELSE NoFrame           \* except: None
          IN  inference' =
                IF ~(InferenceFiles \subseteq present)
                THEN Inferred(ticker, "no_artifacts", NoRow)  \* return
                ELSE IF ~table.ok \/ df.n = 0                 \* Inference failed
                THEN Inferred(ticker, "failed", NoRow)
                ELSE Inferred(ticker, "predicted",
                         create_features_inference(df,
                             InferenceTickerId(classes, ticker), m))
    /\ UNCHANGED <<script, db, pc, tables, i, le, market_df, rows, frames,
                   skipped, split_date, train, test, X_columns, files, fitVars,
                   otherVars>>

Next ==
    \/ test_inference_main
    \/ G_Start \/ G_ProcessStock \/ G_Concat \/ G_Split \/ G_Fit \/ G_Save
    \/ S_Load \/ S_ProcessStock \/ S_Concat \/ train_test_split_temporal
    \/ train_model \/ save_artifacts
    \/ C_Start \/ C_SplitDate \/ C_LoadMarket \/ C_ProcessStock \/ C_Concat
    \/ C_Fit \/ C_Save
    \/ L_Load \/ L_Features \/ L_Fit \/ L_Save

Spec == Init /\ [][Next]_vars

----------------------------------------------------------------------------
(* The chronological split of the two regression builders, applied to a     *)
(* combined dataset of two assets whose k feature rows are dated 1..k       *)

DayCounts == {100 - k : k \in 0..DaySpread}
\* assets whose history leaves only one or two rows after featurisation
ShortCounts == {1, 2}
AssetA == StockNames[1]
AssetB == StockNames[2]
Days(k) == [ok |-> TRUE, n |-> k, start |-> 1, slope |-> 1]
AssetRows(ticker, tid, k) ==
    {Row(ticker, tid, Days(k), t, Rat(0, 1)) : t \in Positions(Days(k))}

InitSplit ==
    /\ script \in {"global", "stock"}
    /\ db = [t \in DbTables |-> NoFrame]
    /\ pc = "split"
    /\ tables = <<AssetA, AssetB>>
    /\ i = Len(tables) + 1
    /\ le = IF script = "global" THEN Fit(tables) ELSE <<>>
    /\ market_df = NoFrame
    /\ \E ka \in DayCounts \cup ShortCounts, kb \in DayCounts \cup ShortCounts :
          rows = IF script = "global"
                 THEN AssetRows(AssetA, Transform(Fit(tables), AssetA), ka)
                          \cup AssetRows(AssetB, Transform(Fit(tables), AssetB), kb)
                 ELSE AssetRows(AssetA, NoTickerId, ka) \cup AssetRows(AssetB, NoTickerId, kb)
    /\ frames = Len(tables)
    /\ skipped = {}
    /\ split_date = NaT
    /\ train = {}
    /\ test = {}
    /\ X_columns = IF script = "global" THEN GlobalFeatureCols
                   ELSE ml_get_feature_columns
    /\ files = IF script = "global"
               THEN WriteFile(<<>>, "ticker_encoder.joblib", Fit(tables))
               ELSE <<>>
    /\ model = NoModel
    /\ class_weights = <<>>
    /\ sample_weights = <<>>
    /\ inference = NoInference
    /\ BackendIdle
    /\ DagIdle

NextSplit == G_Split \/ train_test_split_temporal

SpecSplit == InitSplit /\ [][NextSplit]_vars

----------------------------------------------------------------------------
(* backend: ModelManager (inference/model_loader.py)                        *)

\* model.json may be missing, readable or unreadable by XGBoost; the other
\* files are missing or readable.
FileStates(f) ==
    IF f = "model.json" THEN {"absent", "valid", "unreadable"}
    ELSE {"absent", "valid"}

NoExc == [type |-> "none", msg |-> <<>>]
Raise(type, msg) == [type |-> type, msg |-> msg]
\* str() of the exceptions, word by word; the library's text for an
\* unreadable model is taken to hold no "not found"
ModelFileNotFound ==
    Raise("FileNotFoundError", <<"Model", "file", "not", "found", ":", "model.json">>)
NoSuchFile(f) ==
    Raise("FileNotFoundError",
          <<"[Errno 2]", "No", "such", "file", "or", "directory", ":", f>>)
XGBoostError == Raise("XGBoostError", <<"XGBoostError">>)
AssertionError == Raise("AssertionError", <<>>)

ReadFile(rds, f) == [rds EXCEPT ![f] = @ + 1]
Outcome(mgr, rds, exc, early) ==
    [mgr |-> mgr, rds |-> rds, exc |-> exc, early |-> early]

\* ModelManager.load_model without its already-loaded check
load_model_mut(mgr, rds) ==
    IF disk["model.json"] = "absent"
    THEN Outcome(mgr, rds, ModelFileNotFound, FALSE)
    ELSE LET r1 == ReadFile(rds, "model.json")
             m1 == [mgr EXCEPT !._model = r1["model.json"],
                               !.booster = disk["model.json"] = "valid"]
         IN  IF disk["model.json"] = "unreadable"
             THEN Outcome(m1, r1, XGBoostError, FALSE)
             ELSE IF disk["feature_names.json"] = "absent"
             THEN Outcome(m1, r1, NoSuchFile("feature_names.json"), FALSE)
             ELSE LET r2 == ReadFile(r1, "feature_names.json")
                      m2 == [m1 EXCEPT !._feature_names = r2["feature_names.json"]]
                  IN  IF disk["metadata.json"] = "absent"
                      THEN Outcome(m2, r2, NoSuchFile("metadata.json"), FALSE)
                      ELSE LET r3 == ReadFile(r2, "metadata.json")
                               m3 == [m2 EXCEPT !._metadata = r3["metadata.json"]]
                               r4 == ReadFile(r3, "ticker_encoder.joblib")
                               m4 == [m3 EXCEPT !._ticker_encoder =
                                                    r4["ticker_encoder.joblib"]]
                           IN  IF disk["ticker_encoder.joblib"] = "valid"
                               THEN Outcome(m4, r4, NoExc, FALSE)
                               ELSE Outcome(m3, r3, NoExc, FALSE)

\* ModelManager.load_model
load_model(mgr, rds) ==
    IF mgr._model # 0 THEN Outcome(mgr, rds, NoExc, TRUE)      \* already loaded
    ELSE IF disk["model.json"] = "absent"
    THEN Outcome(mgr, rds, ModelFileNotFound, FALSE)
    ELSE LET r1 == ReadFile(rds, "model.json")
             m1 == [mgr EXCEPT !._model = r1["model.json"],
                               !.booster = disk["model.json"] = "valid"]
         IN  IF disk["model.json"] = "unreadable"
             THEN Outcome(m1, r1, XGBoostError, FALSE)
             ELSE IF disk["feature_names.json"] = "absent"
             THEN Outcome(m1, r1, NoSuchFile("feature_names.json"), FALSE)
             ELSE LET r2 == ReadFile(r1, "feature_names.json")
                      m2 == [m1 EXCEPT !._feature_names = r2["feature_names.json"]]
                  IN  IF disk["metadata.json"] = "absent"
                      THEN Outcome(m2, r2, NoSuchFile("metadata.json"), FALSE)
                      ELSE LET r3 == ReadFile(r2, "metadata.json")
                               m3 == [m2 EXCEPT !._metadata = r3["metadata.json"]]
                               r4 == ReadFile(r3, "ticker_encoder.joblib")
                               m4 == [m3 EXCEPT !._ticker_encoder =
                                                    r4["ticker_encoder.joblib"]]
                           IN  IF disk["ticker_encoder.joblib"] = "valid"
                               THEN Outcome(m4, r4, NoExc, FALSE)
                               ELSE Outcome(m3, r3, NoExc, FALSE)

Properties == {"model", "feature_names", "metadata", "ticker_encoder"}
FieldOf(prop) == CASE prop = "model" -> "_model"
                   [] prop = "feature_names" -> "_feature_names"
                   [] prop = "metadata" -> "_metadata"
                   [] prop = "ticker_encoder" -> "_ticker_encoder"

\* the properties model, feature_names, metadata and ticker_encoder: the
\* outcome of the load they may trigger, and the object returned
Access(prop, mgr, rds) ==
    LET field == FieldOf(prop)
        r == IF mgr[field] = 0 THEN load_model(mgr, rds)
             ELSE Outcome(mgr, rds, NoExc, TRUE)
    IN  IF r.exc # NoExc THEN [out |-> r, value |-> 0]
        ELSE IF prop # "ticker_encoder" /\ r.mgr[field] = 0      \* assert
        THEN [out |-> [r EXCEPT !.exc = AssertionError], value |-> 0]
        ELSE [out |-> r, value |-> r.mgr[field]]

Result(op, exc, value, early) ==
    [op |-> op, raised |-> exc.type, value |-> value, early |-> early]

----------------------------------------------------------------------------
(* backend: market/crud.py, inference/service.py and inference/api.py      *)

BackendSymbols == {"AAPL"}
RequestSymbols == {"AAPL", "aapl", "FAKE_SYMBOL"}
\* str.upper() and str.lower() on the words that occur
UpperCase == [w \in {"aapl"} |-> "AAPL"]
Upper(w) == IF w \in DOMAIN UpperCase THEN UpperCase[w] ELSE w
LowerCase == ("Stock" :> "stock") @@ ("Model" :> "model") @@ ("AAPL" :> "aapl")
                 @@ ("FAKE_SYMBOL" :> "fake_symbol") @@ ("Error" :> "error")
                 @@ ("Insufficient" :> "insufficient") @@ ("Need" :> "need")
                 @@ ("Ticker" :> "ticker") @@ ("No" :> "no")
                 @@ ("XGBoostError" :> "xgboosterror")
Lower(w) == IF w \in DOMAIN LowerCase THEN LowerCase[w] ELSE w

\* "not found" in error_msg.lower()
ContainsNotFound(msg) ==
    \E k \in 1..(Len(msg) - 1) :
        Lower(msg[k]) = "not" /\ Lower(msg[k + 1]) = "found"

\* crud.get_stock: session.get(Stock, symbol.upper()); TRUE when a row is found
get_stock_mut(symbol) == symbol \in market_stocks \/ symbol \notin BackendSymbols
get_stock(symbol) == Upper(symbol) \in market_stocks

OHLC_DAYS == 10
BARS_PER_DAY == 30
MIN_OHLC_BARS == 60
\* crud.get_ohlc: the newest days * 30 bars of the symbol, oldest first
get_ohlc(symbol, days) ==
    LET tab == daily_prices[Upper(symbol)]
    IN  IF Upper(symbol) \in DOMAIN daily_prices /\ tab.n <= days * BARS_PER_DAY
        THEN tab
        ELSE IF Upper(symbol) \notin DOMAIN daily_prices THEN
             [ok |-> TRUE, n |-> 0, start |-> 0, slope |-> 1]
        ELSE [tab EXCEPT !.n = days * BARS_PER_DAY,
                         !.start = tab.start + tab.n - days * BARS_PER_DAY]

\* parameters of features.prepare_features_for_prediction and the arguments
\* InferenceService passes to it
PREPARE_PARAMETERS == 1
PREPARE_ARGUMENTS == 3
TypeError ==
    Raise("TypeError", <<"prepare_features_for_prediction()", "takes", "1",
                         "positional", "argument", "but", "3", "were", "given">>)
ValueError(msg) == Raise("ValueError", msg)

Served(mgr, rds, exc, body) == [mgr |-> mgr, rds |-> rds, exc |-> exc, body |-> body]
NoBody == [symbol |-> "", current_price |-> 0]

\* step 4 of InferenceService.predict_stock_price: the exception the try
\* block ends with (NoExc when it completes) and the manager it leaves
PrepareFeatures(df, mgr, rds) ==
    LET enc == Access("ticker_encoder", mgr, rds)
        feats == prepare_features_for_prediction(df)
        inner == IF enc.out.exc # NoExc THEN enc.out.exc
                 ELSE IF enc.value = 0
                 THEN ValueError(<<"Ticker", "encoder", "not", "loaded">>)
                 ELSE IF PREPARE_ARGUMENTS # PREPARE_PARAMETERS THEN TypeError
                 ELSE IF feats.raised
                 THEN ValueError(<<"Insufficient", "data", "to", "calculate",
                                   "features">>)
                 ELSE NoExc
    IN  [out |-> enc.out,
         exc |-> IF inner = NoExc THEN NoExc
                 ELSE ValueError(<<"Error", "calculating", "features", ":">>
                                     \o inner.msg)]

\* InferenceService.predict_stock_price(session, symbol).  f, m and md are
\* the outcomes of step 4, of model_manager.model and of
\* model_manager.metadata, each on the manager its predecessor leaves.
InferenceService_predict_stock_price(symbol, df, f, m, md) ==
    IF ~get_stock(symbol)
    THEN Served(manager, reads,
                ValueError(<<"Stock", "not", "found", ":", symbol>>), NoBody)
    ELSE IF df.n < MIN_OHLC_BARS
    THEN Served(manager, reads,
                ValueError(<<"Insufficient", "data", "for", symbol, ".",
                             "Need", "at", "least", "60", "bars">>), NoBody)
    ELSE IF f.exc # NoExc
    THEN Served(f.out.mgr, f.out.rds, f.exc, NoBody)
    ELSE IF m.out.exc # NoExc
    THEN Served(m.out.mgr, m.out.rds, m.out.exc, NoBody)
    ELSE IF ~m.out.mgr.booster                               \* predict raises
    THEN Served(m.out.mgr, m.out.rds, XGBoostError, NoBody)
    ELSE IF md.out.exc # NoExc
    THEN Served(md.out.mgr, md.out.rds, md.out.exc, NoBody)
    ELSE Served(md.out.mgr, md.out.rds, NoExc,
                [symbol |-> symbol, current_price |-> Close(df, df.n - 1)])

\* the status and detail api.predict_stock_price answers with
HttpResponse(symbol, exc) ==
    [op |-> "predict", symbol |-> symbol,
     status |-> IF exc = NoExc THEN 200
                ELSE IF exc.type = "ValueError"
                THEN (IF ContainsNotFound(exc.msg) THEN 404 ELSE 400)
                ELSE 500,
     detail |-> IF exc = NoExc \/ exc.type = "ValueError" THEN exc.msg
                ELSE <<"Prediction", "error", ":">> \o exc.msg]

\* GET /inference/predict/{symbol}
predict_stock_price(symbol) ==
    /\ \E df \in {get_ohlc(Upper(symbol), OHLC_DAYS)} :
       \E f \in {PrepareFeatures(df, manager, reads)} :
       \E m \in {Access("model", f.out.mgr, f.out.rds)} :
       \E md \in {Access("metadata", m.out.mgr, m.out.rds)} :
       \E r \in {InferenceService_predict_stock_price(Upper(symbol), df, f, m, md)} :
           /\ manager' = r.mgr
           /\ reads' = r.rds
           /\ response' = HttpResponse(symbol, r.exc)
    /\ UNCHANGED <<market_stocks, daily_prices, disk, instances, returned>>
    /\ UNCHANGED <<marketVars, handlers, trainVars, dagVars>>

\* ModelManager(): __new__ and __init__
Construct ==
    /\ instances' = IF instances = 0 THEN 1 ELSE instances
    /\ returned' = Result("ModelManager", NoExc, instances', FALSE)
    /\ UNCHANGED <<market_stocks, daily_prices, disk, manager, reads, response>>
    /\ UNCHANGED <<marketVars, handlers, trainVars, dagVars>>

\* model_manager.load_model()
LoadModelCall ==
    /\ LET r == load_model(manager, reads)
       IN  /\ manager' = r.mgr
           /\ reads' = r.rds
           /\ returned' = Result("load_model", r.exc, 0, r.early)
    /\ UNCHANGED <<market_stocks, daily_prices, disk, instances, response>>
    /\ UNCHANGED <<marketVars, handlers, trainVars, dagVars>>

\* model_manager.<prop>
PropertyAccess(prop) ==
    /\ LET a == Access(prop, manager, reads)
       IN  /\ manager' = a.out.mgr
           /\ reads' = a.out.rds
           /\ returned' = Result(prop, a.out.exc, a.value, a.out.early)
    /\ UNCHANGED <<market_stocks, daily_prices, disk, instances, response>>
    /\ UNCHANGED <<marketVars, handlers, trainVars, dagVars>>

PriceChoices ==
    {[ok |-> TRUE, n |-> n, start |-> 0, slope |-> 1] :
        n \in {0, MIN_OHLC_BARS - 1, MIN_OHLC_BARS, MaxBars}}

\* the application has imported model_loader: model_manager exists, unloaded
InitBackend ==
    /\ TrainIdle
    /\ DagIdle
    /\ market_stocks \in SUBSET BackendSymbols
    /\ daily_prices \in [BackendSymbols -> PriceChoices]
    /\ \A sym \in BackendSymbols \ market_stocks : daily_prices[sym].n = 0
    /\ disk \in [LoaderFiles -> {"absent", "valid", "unreadable"}]
    /\ \A f \in LoaderFiles : disk[f] \in FileStates(f)
    /\ instances = 1
    /\ manager = NoManager
    /\ reads = [f \in LoaderFiles |-> 0]
    /\ returned = NoResult
    /\ response = NoResult
    /\ active_stocks = market_stocks
    /\ market_reply = NoResult
    /\ handlers = <<>>

NextBackend ==
    \/ Construct
    \/ LoadModelCall
    \/ \E prop \in Properties : PropertyAccess(prop)
    \/ \E symbol \in RequestSymbols : predict_stock_price(symbol)

SpecBackend == InitBackend /\ [][NextBackend]_vars

----------------------------------------------------------------------------
(* Two request handlers on the shared model_manager.  The prediction       *)
(* endpoint is a plain `def`, so the framework runs each request in a      *)
(* worker thread; a handler's first access to model_manager.model or       *)
(* model_manager.ticker_encoder runs the property and load_model one       *)
(* statement at a time, interleaved with the other handler's.  booster     *)
(* tells whether the object _model refers to has its weights.              *)

Handlers == {"h1", "h2"}
FirstAccess == {"model", "ticker_encoder"}
HandlerIdle == [pc |-> "idle", prop |-> "", value |-> 0, loaded |-> FALSE]

Goto(h, pos) == handlers' = [handlers EXCEPT ![h].pc = pos]
ConcurrentUnchanged ==
    UNCHANGED <<market_stocks, daily_prices, disk, instances, returned,
                response, marketVars, trainVars, dagVars>>

InitConcurrent ==
    /\ TrainIdle
    /\ DagIdle
    /\ market_stocks = {}
    /\ daily_prices = <<>>
    /\ active_stocks = {}
    /\ market_reply = NoResult
    /\ disk \in [LoaderFiles -> {"absent", "valid", "unreadable"}]
    /\ \A f \in LoaderFiles : disk[f] \in FileStates(f)
    /\ instances = 1
    /\ manager = NoManager
    /\ reads = [f \in LoaderFiles |-> 0]
    /\ returned = NoResult
    /\ response = NoResult
    /\ handlers = [h \in Handlers |-> HandlerIdle]

\* the handler reaches model_manager.<prop>
H_Access(h, prop) ==
    /\ handlers[h].pc = "idle"
    /\ handlers' = [handlers EXCEPT ![h].pc = "test", ![h].prop = prop]
    /\ UNCHANGED <<manager, reads>>
    /\ ConcurrentUnchanged

\* the property: if self._<prop> is None: self.load_model()
H_Test(h) ==
    /\ handlers[h].pc = "test"
    /\ Goto(h, IF manager[FieldOf(handlers[h].prop)] = 0 THEN "enter" ELSE "return")
    /\ UNCHANGED <<manager, reads>>
    /\ ConcurrentUnchanged

\* load_model: if self._model is not None: return
H_Enter(h) ==
    /\ handlers[h].pc = "enter"
    /\ Goto(h, IF manager._model # 0 THEN "return" ELSE "exists")
    /\ UNCHANGED <<manager, reads>>
    /\ ConcurrentUnchanged

\* if not model_file.exists(): raise FileNotFoundError
H_Exists(h) ==
    /\ handlers[h].pc = "exists"
    /\ Goto(h, IF disk["model.json"] = "absent" THEN "raised" ELSE "construct")
    /\ UNCHANGED <<manager, reads>>
    /\ ConcurrentUnchanged

\* self._model = XGBRegressor()
H_Construct(h) ==
    /\ handlers[h].pc = "construct"
    /\ manager' = [manager EXCEPT !._model = @ + 1, !.booster = FALSE]
    /\ Goto(h, "load")
    /\ UNCHANGED reads
    /\ ConcurrentUnchanged

\* self._model.load_model(str(model_file))
H_LoadWeights(h) ==
    /\ handlers[h].pc = "load"
    /\ reads' = ReadFile(reads, "model.json")
    /\ IF disk["model.json"] = "unreadable"
       THEN Goto(h, "raised") /\ UNCHANGED manager
       ELSE Goto(h, "features") /\ manager' = [manager EXCEPT !.booster = TRUE]
    /\ ConcurrentUnchanged

\* with open(feature_file) as f: self._feature_names = json.load(f)
H_Features(h) ==
    /\ handlers[h].pc = "features"
    /\ IF disk["feature_names.json"] = "absent"
       THEN Goto(h, "raised") /\ UNCHANGED <<manager, reads>>
       ELSE /\ reads' = ReadFile(reads, "feature_names.json")
            /\ manager' = [manager EXCEPT !._feature_names = reads'["feature_names.json"]]
            /\ Goto(h, "metadata")
    /\ ConcurrentUnchanged

\* with open(metadata_file) as f: self._metadata = json.load(f)
H_Metadata(h) ==
    /\ handlers[h].pc = "metadata"
    /\ IF disk["metadata.json"] = "absent"
       THEN Goto(h, "raised") /\ UNCHANGED <<manager, reads>>
       ELSE /\ reads' = ReadFile(reads, "metadata.json")
            /\ manager' = [manager EXCEPT !._metadata = reads'["metadata.json"]]
            /\ Goto(h, "encoder")
    /\ ConcurrentUnchanged

\* if encoder_file.exists(): self._ticker_encoder = joblib.load(encoder_file)
H_Encoder(h) ==
    /\ handlers[h].pc = "encoder"
    /\ IF disk["ticker_encoder.joblib"] = "valid"
       THEN /\ reads' = ReadFile(reads, "ticker_encoder.joblib")
            /\ manager' = [manager EXCEPT !._ticker_encoder =
                                              reads'["ticker_encoder.joblib"]]
       ELSE UNCHANGED <<manager, reads>>
    /\ Goto(h, "return")
    /\ ConcurrentUnchanged

\* the property returns self._<prop>; loaded tells whether the model object
\* of the manager has its weights at that moment
H_Return(h) ==
    /\ handlers[h].pc = "return"
    /\ handlers' = [handlers EXCEPT ![h].pc = "done",
                                    ![h].value = manager[FieldOf(handlers[h].prop)],
                                    ![h].loaded = manager.booster]
    /\ UNCHANGED <<manager, reads>>
    /\ ConcurrentUnchanged

NextConcurrent ==
    \/ \E h \in Handlers : \E prop \in FirstAccess : H_Access(h, prop)
    \/ \E h \in Handlers : H_Test(h)
    \/ \E h \in Handlers : H_Enter(h)
    \/ \E h \in Handlers : H_Exists(h)
    \/ \E h \in Handlers : H_Construct(h)
    \/ \E h \in Handlers : H_LoadWeights(h)
    \/ \E h \in Handlers : H_Features(h)
    \/ \E h \in Handlers : H_Metadata(h)
    \/ \E h \in Handlers : H_Encoder(h)
    \/ \E h \in Handlers : H_Return(h)

SpecConcurrent == InitConcurrent /\ [][NextConcurrent]_vars

----------------------------------------------------------------------------
(* backend/app/modules/market: crud.py, service.py and api.py over the     *)
(* tables market.stocks and market.daily_prices.  A date is a day number;  *)
(* a symbol's rows are dated on consecutive days (symbol, date is unique). *)

MaxDate == 7        \* dates of the queries and of today range over 0..MaxDate
SeededRows == 5
DEFAULT_DAYS == 365

MarketSymbols == <<"AAPL", "GOOGL", "INACT">>      \* in ascending order
MarketSymbolSet == {MarketSymbols[k] : k \in 1..Len(MarketSymbols)}
MarketRequests == MarketSymbolSet \cup RequestSymbols
SymbolRank ==
    [sym \in MarketSymbolSet |-> CHOOSE k \in 1..Len(MarketSymbols) : MarketSymbols[k] = sym]

\* the rows of market.daily_prices, as (symbol, date)
PriceRows ==
    UNION {{[symbol |-> sym, date |-> Date(daily_prices[sym], t)] :
               t \in Positions(daily_prices[sym])} : sym \in DOMAIN daily_prices}

\* ORDER BY: the rows of S as a list ascending in key, a function on S
\* that gives no two rows the same value
RECURSIVE OrderBy(_, _)
OrderBy(S, key) ==
    IF S = {} THEN <<>>
    ELSE LET first == CHOOSE a \in S : \A b \in S : key[a] <= key[b]
         IN  <<first>> \o OrderBy(S \ {first}, key)

\* crud.get_active_stocks
get_active_stocks_mut == OrderBy(market_stocks, SymbolRank)
get_active_stocks ==
    OrderBy({sym \in market_stocks : sym \in active_stocks}, SymbolRank)

NoStock == "None"
\* the row crud.get_stock returns
StockRow(symbol) == IF get_stock(symbol) THEN Upper(symbol) ELSE NoStock

RowDate == [r \in PriceRows |-> r.date]
\* crud.get_daily_prices
get_daily_prices_mut(symbol, start, end) ==
    OrderBy({r \in PriceRows :
                r.symbol = Upper(symbol) /\ r.date >= start /\ r.date < end},
            RowDate)
get_daily_prices(symbol, start, end) ==
    OrderBy({r \in PriceRows :
                r.symbol = Upper(symbol) /\ r.date >= start /\ r.date <= end},
            RowDate)

\* MarketService.get_ohlc
MarketService_get_ohlc(symbol, days, today) ==
    get_daily_prices(symbol, today - days, today)

Reply(op, symbol, status, body) ==
    [op |-> op, symbol |-> symbol, status |-> status, body |-> body]

MarketUnchanged ==
    UNCHANGED <<market_stocks, daily_prices, disk, instances, manager, reads,
                returned, response, active_stocks, handlers, trainVars, dagVars>>

\* GET /market/stocks
list_stocks ==
    /\ market_reply' = Reply("list_stocks", "", 200, get_active_stocks)
    /\ MarketUnchanged

\* GET /market/stocks/{symbol}
api_get_stock_mut(symbol) ==
    /\ market_reply' = IF symbol \notin market_stocks
                       THEN Reply("get_stock", symbol, 404, <<>>)
                       ELSE Reply("get_stock", symbol, 200, <<StockRow(symbol)>>)
    /\ MarketUnchanged
api_get_stock(symbol) ==
    /\ market_reply' = IF StockRow(symbol) = NoStock
                       THEN Reply("get_stock", symbol, 404, <<>>)
                       ELSE Reply("get_stock", symbol, 200, <<StockRow(symbol)>>)
    /\ MarketUnchanged

\* GET /market/stocks/{symbol}/ohlc?days=
api_get_ohlc(symbol, days, today) ==
    /\ market_reply' = IF StockRow(symbol) = NoStock
                       THEN Reply("get_ohlc", symbol, 404, <<>>)
                       ELSE Reply("get_ohlc", symbol, 200,
                                  MarketService_get_ohlc(symbol, days, today))
    /\ MarketUnchanged

\* a direct call of crud.get_daily_prices
GetDailyPricesCall(symbol, start, end) ==
    /\ market_reply' = [op |-> "get_daily_prices", symbol |-> symbol,
                        start |-> start, end |-> end,
                        body |-> get_daily_prices(symbol, start, end)]
    /\ MarketUnchanged

\* stocks are stored under upper-case symbols; a price row belongs to a
\* stored stock (foreign key)
InitMarket ==
    /\ TrainIdle
    /\ DagIdle
    /\ market_stocks \in SUBSET MarketSymbolSet
    /\ active_stocks \in SUBSET market_stocks
    /\ daily_prices \in [market_stocks ->
            {[ok |-> TRUE, n |-> n, start |-> s, slope |-> 1] :
                n \in {0, SeededRows}, s \in {1, 2}}]
    /\ \A sym \in market_stocks :
          /\ daily_prices[sym].n = 0 => daily_prices[sym].start = 1
          /\ sym # "AAPL" => daily_prices[sym].start = 1
          /\ sym = "INACT" => daily_prices[sym].n = 0
    /\ disk = {}
    /\ instances = 0
    /\ manager = NoManager
    /\ reads = <<>>
    /\ returned = NoResult
    /\ response = NoResult
    /\ market_reply = NoResult
    /\ handlers = <<>>

NextMarket ==
    \/ list_stocks
    \/ \E symbol \in MarketRequests : api_get_stock(symbol)
    \/ \E symbol \in MarketRequests : \E days \in {2, DEFAULT_DAYS} :
          \E today \in (MaxDate - 1)..MaxDate : api_get_ohlc(symbol, days, today)
    \/ \E symbol \in {"AAPL", "aapl"} : \E start \in 0..MaxDate :
          \E end \in 0..MaxDate : GetDailyPricesCall(symbol, start, end)

SpecMarket == InitMarket /\ [][NextMarket]_vars

----------------------------------------------------------------------------
(* airflow/dags/retrain_model.py: one run of the retrain_model DAG.  The    *)
(* scheduler starts a task instance when its trigger rule (the default,     *)
(* all_success) is met and retries a failed attempt `retries` times.       *)

TASKS == <<"validate_data_freshness", "train_model", "evaluate_model",
           "backup_artifacts">>
TaskIds == {TASKS[k] : k \in 1..Len(TASKS)}
Place(task) == CHOOSE k \in 1..Len(TASKS) : TASKS[k] = task
\* a >> b >> c with the second link left out
Upstream_mut(task) ==
    IF Place(task) = 1 \/ Place(task) = 3 THEN {} ELSE {TASKS[Place(task) - 1]}
\* t_validate >> t_train >> t_evaluate >> t_backup
Upstream(task) == IF Place(task) = 1 THEN {} ELSE {TASKS[Place(task) - 1]}
RETRIES == 1

MIN_ACTIVE_STOCKS == 5
MAX_DAYS_OLD == 7
MIN_PRICE_ROWS == 400
\* what the queries of validate_data_freshness return: the number of active
\* stocks, the distinct per-symbol row counts of market.daily_prices (none
\* when the table is empty) and the age in days of its newest row
DagInputs ==
    {[db_up |-> up, n_stocks |-> n, counts |-> c, days_old |-> d] :
        up \in BOOLEAN,
        n \in {MIN_ACTIVE_STOCKS - 1, MIN_ACTIVE_STOCKS},
        c \in SUBSET {MIN_PRICE_ROWS - 1, MIN_PRICE_ROWS},
        d \in {MAX_DAYS_OLD, MAX_DAYS_OLD + 1}}

\* TRUE when validate_data_freshness raises
validate_data_freshness(input) ==
    \/ ~input.db_up                                   \* hook.get_conn raises
    \/ input.n_stocks < MIN_ACTIVE_STOCKS
    \/ input.counts # {} /\ input.days_old > MAX_DAYS_OLD   \* None when empty
    \/ {c \in input.counts : c < MIN_PRICE_ROWS} # {}

\* whether an attempt of the task may succeed (TRUE) or raise (FALSE):
\* training and evaluation can do either, backup_artifacts catches what
\* copytree raises
Attempts(task) ==
    IF task = "validate_data_freshness"
    THEN {~validate_data_freshness(dag_input)}
    ELSE IF task = "backup_artifacts" THEN {TRUE}
    ELSE BOOLEAN

InitDag ==
    /\ TrainIdle
    /\ BackendIdle
    /\ SeedIdle
    /\ dag_input \in DagInputs
    /\ dag_input.counts = {} => dag_input.days_old = MAX_DAYS_OLD
    /\ task_state = [t \in TaskIds |-> "none"]
    /\ try_number = [t \in TaskIds |-> 0]

\* the scheduler queues the task and a worker starts the attempt
TaskStart(task) ==
    /\ task_state[task] \in {"none", "up_for_retry"}
    /\ \A u \in Upstream(task) : task_state[u] = "success"
    /\ task_state' = [task_state EXCEPT ![task] = "running"]
    /\ try_number' = [try_number EXCEPT ![task] = @ + 1]
    /\ UNCHANGED <<dag_input, seedVars, trainVars, backendVars>>

\* the python_callable returns or raises
TaskFinish(task) ==
    /\ task_state[task] = "running"
    /\ \E ok \in Attempts(task) :
          task_state' = [task_state EXCEPT ![task] =
                            IF ok THEN "success"
                            ELSE IF try_number[task] <= RETRIES THEN "up_for_retry"
                            ELSE "failed"]
    /\ UNCHANGED <<dag_input, try_number, seedVars, trainVars, backendVars>>

\* all_success can no longer be met
UpstreamFailed(task) ==
    /\ task_state[task] = "none"
    /\ \E u \in Upstream(task) : task_state[u] \in {"failed", "upstream_failed"}
    /\ task_state' = [task_state EXCEPT ![task] = "upstream_failed"]
    /\ UNCHANGED <<dag_input, try_number, seedVars, trainVars, backendVars>>

NextDag ==
    \/ \E task \in TaskIds : TaskStart(task)
    \/ \E task \in TaskIds : TaskFinish(task)
    \/ \E task \in TaskIds : UpstreamFailed(task)

SpecDag == InitDag /\ [][NextDag]_vars

----------------------------------------------------------------------------
(* airflow/dags/seed_market_data.py and backend/scripts/seed_market.py: one *)
(* run of the seed_market_data DAG (max_active_runs = 1).  The database is  *)
(* the set of symbols of market.stocks and, per symbol, the number of its   *)
(* rows in market.daily_prices.                                             *)

SEED_TASKS == <<"check_db_connection", "truncate_old_data",
                "seed_stocks_and_prices", "verify_data_quality">>
SeedTaskIds == {SEED_TASKS[k] : k \in 1..Len(SEED_TASKS)}
SeedPlace(task) == CHOOSE k \in 1..Len(SEED_TASKS) : SEED_TASKS[k] = task
\* t_check >> t_truncate >> t_seed >> t_verify
SeedUpstream(task) ==
    IF SeedPlace(task) = 1 THEN {} ELSE {SEED_TASKS[SeedPlace(task) - 1]}
SEED_RETRIES == 2

STOCKS == <<"AAPL", "MSFT", "GOOGL">>
DAYS == 730
EXPECTED_STOCKS == 5
MIN_SEED_ROWS == 400
HOLIDAYS_PER_YEAR == 9

\* symbols a database may hold: those of STOCKS and two of an earlier seed
SeedSymbols == {STOCKS[k] : k \in 1..Len(STOCKS)} \cup {"AMZN", "TSLA"}
SeedDb(stocks, n) ==
    [stocks |-> stocks, prices |-> [sym \in SeedSymbols |-> IF sym \in stocks THEN n ELSE 0]]
EmptyDb == SeedDb({}, 0)

\* _gen_daily_prices: one row per trading day of start..end, DAYS + 1
\* calendar days.  The weekdays of the whole weeks are counted exactly, the
\* remaining days hold 1 to 3 weekdays, and the holidays removed are
\* between none and those of the three calendar years the range can touch.
TradingDays ==
    LET weeks == (DAYS + 1) \div 7
        rest == (DAYS + 1) % 7
    IN  {weeks * 5 + 1 - 3 * HOLIDAYS_PER_YEAR, weeks * 5 + rest}

\* seed_market.main: the databases a committed run can leave
seed_main ==
    {SeedDb({STOCKS[k] : k \in 1..Len(STOCKS)}, n) : n \in TradingDays}

\* TRUE when verify_data_quality raises
verify_data_quality(dbs) ==
    \/ Cardinality(dbs.stocks) # EXPECTED_STOCKS
    \/ \E sym \in SeedSymbols :
          dbs.prices[sym] > 0 /\ dbs.prices[sym] < MIN_SEED_ROWS

\* the outcomes of one attempt of the task: whether it returns, and the
\* database it leaves.  A failed truncation is rolled back, and so is a seed
\* whose session never commits.
SeedAttempts(task) ==
    IF task = "check_db_connection"
    THEN {[ok |-> b, dbs |-> seed_db] : b \in BOOLEAN}
    ELSE IF task = "truncate_old_data"
    THEN {[ok |-> TRUE, dbs |-> EmptyDb], [ok |-> FALSE, dbs |-> seed_db]}
    ELSE IF task = "seed_stocks_and_prices"
    THEN {[ok |-> TRUE, dbs |-> d] : d \in seed_main}
         \cup {[ok |-> FALSE, dbs |-> seed_db]}
    ELSE {[ok |-> ~verify_data_quality(seed_db), dbs |-> seed_db]}

\* the database before the run: never seeded, or left by an earlier seed of
\* five stocks
InitSeed ==
    /\ TrainIdle
    /\ BackendIdle
    /\ dag_input = <<>>
    /\ task_state = <<>>
    /\ try_number = <<>>
    /\ seed_db \in {EmptyDb} \cup {SeedDb(SeedSymbols, n) : n \in {MIN_SEED_ROWS - 1, MIN_SEED_ROWS}}
    /\ seed_state = [t \in SeedTaskIds |-> "none"]
    /\ seed_try = [t \in SeedTaskIds |-> 0]

SeedTaskStart(task) ==
    /\ seed_state[task] \in {"none", "up_for_retry"}
    /\ \A u \in SeedUpstream(task) : seed_state[u] = "success"
    /\ seed_state' = [seed_state EXCEPT ![task] = "running"]
    /\ seed_try' = [seed_try EXCEPT ![task] = @ + 1]
    /\ UNCHANGED <<seed_db, retrainVars, trainVars, backendVars>>

SeedTaskFinish(task) ==
    /\ seed_state[task] = "running"
    /\ \E a \in SeedAttempts(task) :
          /\ seed_db' = a.dbs
          /\ seed_state' = [seed_state EXCEPT ![task] =
                               IF a.ok THEN "success"
                               ELSE IF seed_try[task] <= SEED_RETRIES THEN "up_for_retry"
                               ELSE "failed"]
    /\ UNCHANGED <<seed_try, retrainVars, trainVars, backendVars>>

SeedUpstreamFailed(task) ==
    /\ seed_state[task] = "none"
    /\ \E u \in SeedUpstream(task) : seed_state[u] \in {"failed", "upstream_failed"}
    /\ seed_state' = [seed_state EXCEPT ![task] = "upstream_failed"]
    /\ UNCHANGED <<seed_db, seed_try, retrainVars, trainVars, backendVars>>

NextSeed ==
    \/ \E task \in SeedTaskIds : SeedTaskStart(task)
    \/ \E task \in SeedTaskIds : SeedTaskFinish(task)
    \/ \E task \in SeedTaskIds : SeedUpstreamFailed(task)

SpecSeed == InitSeed /\ [][NextSeed]_vars

----------------------------------------------------------------------------
(* Properties *)

Builders == {"global", "stock", "classifier"}
Regressors == {"global", "stock"}

\* assets the per-asset loop has gone past
Processed == {tables[k] : k \in {j \in 1..Len(tables) : j < i}}
\* positions of the asset's bars that became FeatureRows
Emitted(ticker) == {r.t : r \in {q \in rows : q.ticker = ticker}}
SameCutoff(a, b) == \/ IsNaT(a) /\ IsNaT(b)
                    \/ ~IsNaT(a) /\ ~IsNaT(b) /\ RatEq(a, b)

\* the split has been applied to the rows collected so far
SplitApplied ==
    \/ script \in Regressors /\ pc \in {"fit", "save", "done"}
    \/ script = "classifier" /\ pc \in {"loop", "fit", "save", "done"}

\* C1: after the chronological split every feature row lies in exactly one
\* of train and test, every train row is dated <= cutoff, every test row is
\* dated > cutoff, and no train row is dated after a test row.
C1_NoLeakage ==
    SplitApplied =>
        /\ \A r \in rows : (r \in train) # (r \in test)
        /\ \A r \in train : ~IsNaT(split_date) /\ RatLe(Rat(r.date, 1), split_date)
        /\ \A r \in test : ~IsNaT(split_date) /\ RatLt(split_date, Rat(r.date, 1))
        /\ \A a \in train : \A b \in test : a.date <= b.date

\* C2: in every multi-asset builder the cutoff is the 0.8 quantile of the
\* dates of all FeatureRows of all assets, and it is computed only once the
\* per-asset loop has joined every asset's rows.
C2_CombinedQuantile ==
    script \in Builders =>
        /\ ~IsNaT(split_date) => pc \in {"fit", "save", "done", "aborted"}
        /\ pc \in {"fit", "save", "done"} => SameCutoff(split_date, Quantile(rows))

LongestWindow == 50
Horizon == IF script = "global" THEN GLOBAL_PREDICTION_HORIZON
           ELSE IF script = "stock" THEN STOCK_PREDICTION_HORIZON
           ELSE LGBM_PREDICTION_HORIZON

\* bars that are neither among the first LongestWindow - 1 nor among the last
\* `horizon` bars
C3_Expected(tab, horizon) ==
    {t \in Positions(tab) : t >= LongestWindow - 1 /\ t + horizon <= tab.n - 1}
C3_Count(tab, horizon) ==
    IF tab.n - (LongestWindow - 1) - horizon > 0
    THEN tab.n - (LongestWindow - 1) - horizon ELSE 0

\* C3 as stated: a regression assembler emits, for an asset of N complete
\* bars, exactly the N - 49 - horizon bars that are neither warm-up nor
\* trailing (none when that number is not positive).
C3_RowCountAsStated ==
    script \in Regressors =>
        \A tk \in Processed : db[tk].ok =>
            /\ Emitted(tk) = C3_Expected(db[tk], Horizon)
            /\ Cardinality(Emitted(tk)) = C3_Count(db[tk], Horizon)

\* C3 amended: as stated for train_global_model.create_features; in
\* train_stock_model.prepare_dataset as stated when N >= 100 and no row at
\* all when N < 100.
C3_RowCount ==
    script \in Regressors =>
        \A tk \in Processed : db[tk].ok =>
            IF script = "stock" /\ db[tk].n < MIN_BARS
            THEN Emitted(tk) = {}
            ELSE /\ Emitted(tk) = C3_Expected(db[tk], Horizon)
                 /\ Cardinality(Emitted(tk)) = C3_Count(db[tk], Horizon)

C3_Witness ==
    /\ script = "stock"
    /\ \E tk \in Processed : db[tk].n >= MIN_BARS /\ Emitted(tk) # {}
    /\ \E tk \in Processed : db[tk].n < MIN_BARS
                             /\ C3_Count(db[tk], Horizon) > 0

\* C4: the classifier's create_features emits no row of the last
\* PREDICTION_HORIZON bars of an asset and no row of the warm-up period.
C4_TargetObservable ==
    script = "classifier" =>
        \A r \in rows :
            /\ r.t + CLASSIFIER_PREDICTION_HORIZON <= db[r.ticker].n - 1
            /\ r.t >= 72 - 1

\* C5: in each regression trainer the target of the row of bar t is
\* close[t+horizon]/close[t] - 1; on a price line rising by `slope` per bar
\* that is slope * horizon / close[t].
C5_ForwardReturn ==
    script \in {"global", "stock", "lgbm"} =>
        \A r \in rows :
            RatEq(r.target,
                  Rat(db[r.ticker].slope * Horizon, Close(db[r.ticker], r.t)))

\* C6: for every row whose forward return r over 12 bars exists, the target
\* is UP iff r > 0.003, DOWN iff r < -0.003 and NEUTRAL otherwise; the
\* thresholds are symmetric around zero.
C6_ThreeWayTarget ==
    /\ THRESHOLD_UP.d = THRESHOLD_DOWN.d /\ THRESHOLD_UP.n = -THRESHOLD_DOWN.n
    /\ script = "classifier" =>
        \A r \in rows :
            r.t + 12 \in Positions(db[r.ticker]) =>
                LET c1 == Close(db[r.ticker], r.t)
                    c2 == Close(db[r.ticker], r.t + 12)
                    up == 1000 * (c2 - c1) > 3 * c1
                    down == 1000 * (c2 - c1) < -3 * c1
                IN  /\ r.target \in {0, 1, 2}
                    /\ (r.target = 2) <=> up
                    /\ (r.target = 0) <=> down
                    /\ (r.target = 1) <=> (~up /\ ~down)

C6_Witness ==
    /\ script = "classifier"
    /\ \A code \in {0, 1, 2} :
          \E r \in rows : /\ r.t + 12 \in Positions(db[r.ticker])
                          /\ r.target = code

\* C7: an exception while loading or featurising one asset skips that asset
\* only; the run aborts if and only if no asset yielded FeatureRows.
C7_SkipOnlyFailing ==
    script \in Builders =>
        /\ \A tk \in Processed : ~db[tk].ok => tk \in skipped
        /\ pc = "aborted" => rows = {}
        /\ pc \in {"save", "done"} => rows # {}

\* C8: an asset with fewer than 100 bars contributes no FeatureRow, in any
\* dataset builder.
C8_MinBars ==
    script \in Builders =>
        \A tk \in Processed : db[tk].n < 100 =>
            /\ Emitted(tk) = {}
            /\ \A r \in train \cup test : r.ticker # tk

\* C9: after a successful run the artifact directory holds the model
\* weights, the feature-name list, the metadata and the ticker encoder,
\* i.e. every file ModelManager.load_model reads.
C9_FourArtifacts ==
    (script \in Regressors /\ pc = "done") =>
        /\ {"model.json", "global_model.json"} \cap DOMAIN files # {}
        /\ {"feature_names.json", "metadata.json", "ticker_encoder.joblib"}
               \subseteq DOMAIN files
        /\ script = "stock" => LoaderFiles \subseteq DOMAIN files

\* C10: the feature-name list persisted by training is, element by element,
\* the list the backend uses, prepare_features_for_prediction returns its
\* columns in that order, and the classifier's training columns are the
\* columns of create_features_inference.
C10_FeatureOrder ==
    /\ (script = "stock" /\ X_columns # <<>>) =>
          X_columns = backend_get_feature_columns
    /\ (script = "stock" /\ "feature_names.json" \in DOMAIN files) =>
          /\ files["feature_names.json"] = backend_get_feature_columns
          /\ files["feature_names.json"] = X_columns
          /\ \A tk \in DOMAIN db :
                LET out == prepare_features_for_prediction(db[tk])
                IN  ~out.raised => out.columns = files["feature_names.json"]
    /\ (script = "classifier" /\ X_columns # <<>>) =>
          X_columns = InferenceFeatureCols

C10_Witness ==
    /\ script = "stock"
    /\ "feature_names.json" \in DOMAIN files
    /\ \E tk \in DOMAIN db : ~prepare_features_for_prediction(db[tk]).raised

\* positions of a frame of n bars where every column holds a value
FullyPopulated(cols, n) ==
    {t \in 0..(n - 1) : \A c \in cols : c.lo <= t /\ t <= c.hi}

\* C11: inference feature preparation returns exactly one row, the most
\* recent bar all of whose features are populated, and no row when the
\* window holds no fully-populated bar (prepare_features_for_prediction
\* raises ValueError); this holds of prepare_features_for_prediction on
\* every readable table and of the row test_inference.main predicted from.
C11_MostRecentFullRow ==
    /\ \A tk \in {k \in DOMAIN db : db[k].ok} :
          LET tab == db[tk]
              full == FullyPopulated(calculate_technical_indicators(tab.n), tab.n)
              r == prepare_features_for_prediction(tab)
          IN  IF full = {} THEN r.raised
              ELSE ~r.raised /\ r.t = Max(full)
    /\ inference.ran /\ inference.outcome = "predicted" =>
          inference.last_full >= 0 /\ inference.t = inference.last_full

\* C12: no row of the train or test partition of train_global_model.main or
\* train_classifier_model.main, and no class of the fitted ticker encoder,
\* is an excluded metadata/control table or, in the classifier, which
\* designates it, the market index.
C12_UniverseExcludesIndex ==
    script \in {"global", "classifier"} =>
        LET banned == EXCLUDE_TABLES \cup
                          (IF script = "classifier" THEN {MARKET_TICKER} ELSE {})
        IN  /\ \A r \in train \cup test : r.ticker \notin banned
            /\ \A k \in 1..Len(le) : le[k] \notin banned

Trainers == {"global", "stock", "classifier"}

\* C13: every gradient-boosting trainer fits with early stopping against
\* the held-out partition: a fixed number of rounds is configured, boosting
\* halts once the metric has gone that many rounds without improving, and
\* the persisted model is the best iteration, not the final one.
C13_EarlyStopping ==
    script \in Trainers /\ model.fitted =>
        /\ "early_stopping_rounds" \in DOMAIN model.params
        /\ model.trees = Min({model.params.n_estimators,
                              model.best_round + 1
                                  + model.params.early_stopping_rounds})
        /\ model.uses = model.best_round + 1

\* C14: in train_classifier_model.main each class c with count_c > 0 has
\* weight total / (3 * count_c), total the number of training rows, a class
\* with no row has weight 1, every training row's sample weight is the
\* weight of its class, and counts of 10, 70 and 20 out of 100 give the
\* weights 100/30, 100/210 and 100/60.
C14_ClassWeights ==
    /\ script = "classifier" /\ class_weights # <<>> =>
          /\ \A c \in {DOWN, NEUTRAL, UP} :
                LET count == Cardinality({r \in train : r.target = c})
                    w == class_weights[c]
                IN  /\ w.d > 0
                    /\ IF count > 0
                       THEN w.n * 3 * count = Cardinality(train) * w.d
                       ELSE w.n = w.d
          /\ DOMAIN sample_weights = train
          /\ \A r \in train : RatEq(sample_weights[r], class_weights[r.target])
    /\ LET w == [count \in {10, 70, 20} |-> ClassWeight(100, count)]
       IN  /\ w[10].n * 30 = 100 * w[10].d
           /\ w[70].n * 210 = 100 * w[70].d
           /\ w[20].n * 60 = 100 * w[20].d

\* the weights were computed over a training set where two classes occur
\* and one does not
C14_Witness ==
    /\ script = "classifier" /\ class_weights # <<>>
    /\ \E c \in {DOWN, NEUTRAL, UP} : \A r \in train : r.target # c
    /\ Cardinality({r.target : r \in train}) = 2

RowsOf(S, ticker) == {r \in S : r.ticker = ticker}
\* assets A and B each have 100 feature rows, dated days 1..100
TwoAssets100 ==
    \A ticker \in {AssetA, AssetB} :
        /\ Cardinality(RowsOf(rows, ticker)) = 100
        /\ {r.date : r \in RowsOf(rows, ticker)} = 1..100

\* C15: the 0.8-quantile split over a combined dataset in which asset A
\* and asset B each have 100 feature rows dated days 1..100 puts exactly
\* 160 rows in train and 40 rows in test, and within each asset every train
\* row is dated before every test row.
C15_Split160_40 ==
    pc = "fit" /\ TwoAssets100 =>
        /\ Cardinality(train) = 160
        /\ Cardinality(test) = 40
        /\ \A ticker \in {AssetA, AssetB} :
              \A a \in RowsOf(train, ticker) : \A b \in RowsOf(test, ticker) :
                  a.date < b.date

\* the split has been applied to the 100 + 100 rows
C15_Witness == pc = "fit" /\ TwoAssets100 /\ train # {} /\ test # {}

\* C16: asset identity is a stable integer code per symbol: the encoder is
\* fit over the whole asset universe before any asset is processed, a
\* symbol's code is its place in that universe whatever assets are skipped,
\* and two distinct symbols are never presented to the model with the same
\* ticker_id, neither at training nor by test_inference.main.
C16_StableTickerId ==
    /\ script \in {"global", "classifier"} =>
          /\ rows # {} \/ i > 1 => le = Fit(tables)
          /\ \A r \in rows : r.ticker_id = Transform(Fit(tables), r.ticker)
          /\ \A a \in rows : \A b \in rows :
                a.ticker # b.ticker => a.ticker_id # b.ticker_id
    /\ inference.ran /\ inference.outcome = "predicted" =>
          \A r \in train \cup test :
              r.ticker # inference.ticker => r.ticker_id # inference.tid

\* C17: GET /inference/predict/{symbol} for a symbol absent from
\* market.stocks answers 404 with a detail containing "not found", whatever
\* artifacts are on disk, and touches neither the manager nor the artifact
\* files.
C17_AbsentSymbol404 ==
    [][\A symbol \in RequestSymbols :
          predict_stock_price(symbol) /\ Upper(symbol) \notin market_stocks =>
              /\ response'.status = 404
              /\ ContainsNotFound(response'.detail)
              /\ manager' = manager
              /\ reads' = reads]_vars

\* an absent symbol was answered while the artifacts were all on disk
C17_Witness ==
    /\ response.op = "predict"
    /\ Upper(response.symbol) \notin market_stocks
    /\ response.status = 404
    /\ \A f \in LoaderFiles : disk[f] = "valid"

\* C18: GET /inference/predict/{symbol} answers 404 when the stock is not
\* found, 400 when it has too few bars, and 500 when the model cannot be
\* loaded (its file is missing or unreadable).
C18_StatusMapping ==
    response.op = "predict" =>
        LET sym == Upper(response.symbol)
        IN  IF sym \notin market_stocks THEN response.status = 404
            ELSE IF daily_prices[sym].n < MIN_OHLC_BARS THEN response.status = 400
            ELSE IF disk["model.json"] # "valid" THEN response.status = 500
            ELSE TRUE

\* a load_model call has run to its end
Loaded ==
    /\ manager._model # 0 /\ manager.booster
    /\ manager._feature_names # 0
    /\ manager._metadata # 0

\* C19: ModelManager is a singleton that loads the artifacts at most once:
\* every construction yields the one instance, and once a load has
\* succeeded no access to model, feature_names, metadata or ticker_encoder
\* and no further load_model call reads the disk or replaces a cached
\* object, and each access returns the cached object.
C19_LoadOnce ==
    [][/\ instances = 1 /\ instances' = 1
       /\ Construct => returned'.value = 1
       /\ Loaded =>
             /\ reads' = reads
             /\ manager' = manager
             /\ \A prop \in Properties :
                   PropertyAccess(prop) =>
                       /\ returned'.raised = "none"
                       /\ returned'.value = manager[FieldOf(prop)]]_vars

\* a further load_model call found the manager loaded, after one read of
\* each file
C19_Witness ==
    /\ Loaded
    /\ returned.op = "load_model" /\ returned.early
    /\ \A f \in LoaderFiles : reads[f] = 1

Started(task) == try_number[task] > 0

\* C20: in every run of the retrain_model DAG the tasks execute in the order
\* validate_data_freshness, train_model, evaluate_model, backup_artifacts,
\* each started only after its predecessor has succeeded: train_model never
\* starts in a run whose validation failed and backup_artifacts never starts
\* in a run whose evaluation failed.
C20_TaskOrder ==
    /\ \A k \in 2..Len(TASKS) :
          Started(TASKS[k]) => task_state[TASKS[k - 1]] = "success"
    /\ \A k \in 1..Len(TASKS) : \A j \in 1..Len(TASKS) :
          j < k /\ Started(TASKS[k]) => Started(TASKS[j])
    /\ task_state["validate_data_freshness"] \in {"failed", "up_for_retry"} =>
          ~Started("train_model")
    /\ task_state["evaluate_model"] \in {"failed", "up_for_retry"} =>
          ~Started("backup_artifacts")

\* a run went through all four tasks, and evaluation needed its retry
C20_Witness ==
    /\ task_state["backup_artifacts"] = "success"
    /\ try_number["evaluate_model"] = RETRIES + 1

\* C21: validate_data_freshness raises unless at least 5 stocks are active,
\* the newest daily price is at most 7 days old and every stock has at
\* least 400 daily-price rows; so a run whose validation succeeded had a
\* non-empty price table in which no symbol is short of rows.
C21_FreshnessGate ==
    task_state["validate_data_freshness"] = "success" =>
        /\ dag_input.n_stocks >= MIN_ACTIVE_STOCKS
        /\ dag_input.counts # {}
        /\ dag_input.days_old <= MAX_DAYS_OLD
        /\ \A c \in dag_input.counts : c >= MIN_PRICE_ROWS

\* C22: in the seed_market_data DAG, whenever truncate_old_data and
\* seed_stocks_and_prices have succeeded, verify_data_quality passes:
\* market.stocks holds exactly 5 stocks, every stock has at least 400
\* daily-price rows, and no attempt of verify_data_quality raises.
C22_SeedVerifies ==
    seed_state["truncate_old_data"] = "success"
    /\ seed_state["seed_stocks_and_prices"] = "success" =>
        /\ Cardinality(seed_db.stocks) = EXPECTED_STOCKS
        /\ \A sym \in seed_db.stocks : seed_db.prices[sym] >= MIN_SEED_ROWS
        /\ seed_state["verify_data_quality"] \notin {"up_for_retry", "failed"}

\* the elements of a list
Elems(seq) == {seq[k] : k \in 1..Len(seq)}

\* C23: crud.get_active_stocks, and GET /market/stocks built on it, returns
\* exactly the stocks whose is_active flag is true, each once, in ascending
\* symbol order; an inactive stock never appears in the result.
C23_ActiveStocksOrdered ==
    market_reply.op = "list_stocks" =>
        LET body == market_reply.body
        IN  /\ Elems(body) = market_stocks \cap active_stocks
            /\ Len(body) = Cardinality(Elems(body))
            /\ \A j \in 1..Len(body) : \A k \in 1..Len(body) :
                  j < k => SymbolRank[body[j]] < SymbolRank[body[k]]
            /\ \A sym \in market_stocks \ active_stocks : sym \notin Elems(body)

\* two active stocks were listed while an inactive one is stored
C23_Witness ==
    /\ market_reply.op = "list_stocks"
    /\ Len(market_reply.body) = 2
    /\ market_stocks \ active_stocks # {}

\* C24: stock lookup is case-insensitive: crud.get_stock(s) returns what
\* crud.get_stock(s.upper()) returns, the stock stored under s.upper() or
\* None when there is none, and GET /market/stocks/{symbol} and
\* GET /market/stocks/{symbol}/ohlc answer 404 exactly when that lookup
\* returns None.
C24_CaseInsensitiveLookup ==
    /\ \A sym \in MarketRequests :
          /\ StockRow(sym) = StockRow(Upper(sym))
          /\ StockRow(sym) = IF Upper(sym) \in market_stocks THEN Upper(sym) ELSE NoStock
    /\ market_reply.op \in {"get_stock", "get_ohlc"} =>
          (market_reply.status = 404 <=> StockRow(market_reply.symbol) = NoStock)

\* the stock stored as AAPL was served to a request for aapl
C24_Witness ==
    /\ market_reply.op = "get_stock"
    /\ market_reply.symbol = "aapl"
    /\ market_reply.status = 200
    /\ market_reply.body = <<"AAPL">>

\* C25: crud.get_daily_prices(symbol, start, end) returns exactly the rows of
\* the symbol with start <= date <= end, in ascending date order and with no
\* row of another symbol; with 5 rows dated today-5 .. today-1 the range
\* [today-2, today] returns exactly 2 rows, and a symbol without prices
\* returns an empty list.
C25_DailyPricesRange ==
    market_reply.op = "get_daily_prices" =>
        LET body == market_reply.body
            sym == Upper(market_reply.symbol)
            today == market_reply.end
        IN  /\ Elems(body) = {r \in PriceRows : /\ r.symbol = sym
                                                 /\ market_reply.start <= r.date
                                                 /\ r.date <= market_reply.end}
            /\ \A j \in 1..Len(body) : \A k \in 1..Len(body) :
                  j < k => body[j].date < body[k].date
            /\ \A k \in 1..Len(body) : body[k].symbol = sym
            /\ sym \in market_stocks /\ daily_prices[sym].n = SeededRows
               /\ Date(daily_prices[sym], 0) = today - SeededRows
               /\ market_reply.start = today - 2 => Len(body) = 2
            /\ (sym \in market_stocks => daily_prices[sym].n = 0) => body = <<>>

\* the range [today-2, today] was read from rows dated today-5 .. today-1
\* while another symbol holds rows of the same dates
C25_Witness ==
    /\ market_reply.op = "get_daily_prices"
    /\ market_reply.symbol = "AAPL" /\ "AAPL" \in market_stocks
    /\ daily_prices["AAPL"].n = SeededRows
    /\ Date(daily_prices["AAPL"], 0) = market_reply.end - SeededRows
    /\ market_reply.start = market_reply.end - 2
    /\ Len(market_reply.body) = 2
    /\ "GOOGL" \in market_stocks /\ daily_prices["GOOGL"].n = SeededRows

\* C26: for a stock that exists, has at least 60 bars, and whose model,
\* metadata and ticker encoder load successfully,
\* InferenceService.predict_stock_price returns a PredictionResponse
\* instead of raising, so the endpoint answers 200.
C26_HappyPath ==
    response.op = "predict" =>
        LET sym == Upper(response.symbol)
        IN  /\ sym \in market_stocks
            /\ daily_prices[sym].n >= MIN_OHLC_BARS
            /\ \A f \in LoaderFiles : disk[f] = "valid"
            => response.status = 200

\* C27: artifact files are written only by a successful run: a run of
\* train_global_model.main or train_classifier_model.main that aborts before
\* training completes leaves every file of the artifact directory (empty
\* before the run), ticker_encoder.joblib included, as it was.
C27_ArtifactsOnlyOnSuccess ==
    script \in {"global", "classifier"} /\ pc = "aborted" => files = <<>>

\* C28: a failed ModelManager.load_model leaves the manager unloaded: when
\* load_model raises, _model, _feature_names and _metadata are all still
\* None, and no access to model returns an object while the feature names
\* or the metadata are missing.
C28_FailedLoadLeavesUnloaded ==
    [][/\ LoadModelCall /\ returned'.raised # "none" =>
             /\ manager'._model = 0
             /\ manager'._feature_names = 0
             /\ manager'._metadata = 0
       /\ PropertyAccess("model") /\ returned'.raised = "none" =>
             /\ manager'._feature_names # 0
             /\ manager'._metadata # 0]_vars

\* C29: lazy initialisation of the shared model_manager is safe under
\* concurrent request handlers: for any interleaving of two handlers that
\* access model_manager.model or ticker_encoder for the first time, the
\* model file is loaded at most once and no handler obtains a model object
\* whose weights have not finished loading.
C29_ConcurrentLazyInit ==
    /\ reads["model.json"] <= 1
    /\ \A h \in Handlers :
          handlers[h].pc = "done" /\ handlers[h].prop = "model" =>
              handlers[h].loaded

\* C30: for every combined dataset whose timestamps take at least two
\* distinct values, the 0.8-quantile split of train_global_model.main and
\* train_test_split_temporal yields a non-empty train partition and a
\* non-empty test partition, so the eval_set handed to the trainer is never
\* empty.
C30_NonEmptyPartitions ==
    script \in Regressors /\ pc = "fit"
    /\ Cardinality({r.date : r \in rows}) >= 2 =>
        train # {} /\ test # {}
====
